---------------------------- MODULE Spec2Model ----------------------------
(***************************************************************************)
(* Browsing and preview orchestration of ncview:                           *)
(*   - FileBrowser (widgets/file_browser.py): directory scans in thread    *)
(*     workers, the generation counter, _populate_list, navigation.        *)
(*   - NcviewApp (app.py) and PreviewPanel (widgets/preview_panel.py):     *)
(*     split / full-screen preview, the debounced split-preview worker.    *)
(* Two specifications share the variables: SpecScan (the browser's scan    *)
(* workers against the interactive thread) and SpecPreview (the preview    *)
(* state machine over a fixed, already populated listing).                 *)
(***************************************************************************)
EXTENDS Integers, Sequences, FiniteSets, TLC

\* ------------------------------------------------------------------ bounds

\* Scan requests (_load_directory calls) followed in one behaviour.
MaxScans == 3

\* Debounced split-preview workers that can be alive at once.
MaxDebounce == 2

\* Viewer widgets that can exist at once (mounted or referenced).
MaxViewers == 3

\* Entries one os.scandir call yields in the listing specifications.
MaxEntries == 3

\* Lines of `git status` output read in the listing specifications.
MaxLines == 3

\* Viewer classes registered in the registry specification.
MaxRegistered == 3

\* _load_directory calls made in the navigation specification.
MaxRequests == 5

\* _load_directory calls made in the search specification.
MaxSearchScans == 3

\* File operations submitted in the file operation specification.
MaxFileOps == 2

\* MAX_HISTORY, the length history.json is cut to: 25 in history.py, scaled
\* down to what the directories that occur can fill.
MaxHistory == 3

\* ------------------------------------------------------------- file system

NoPath == "<none>"

Root == "/"

Dirs == {"/", "/p1", "/p2"}

Parent(d) == IF d = Root THEN Root ELSE "/"

\* One os.DirEntry: st = FALSE models a stat() that raises OSError.
Entry(dir, name, kind, st, size, mtime) ==
  [path |-> (IF dir = Root THEN "/" ELSE dir \o "/") \o name, name |-> name,
   kind |-> kind, st |-> st, size |-> size, mtime |-> mtime]

\* What os.scandir yields for each directory, in the order the OS gives it.
Scandir(d) ==
  CASE d = "/"   -> << Entry("/", "p2", "dir", TRUE, 64, 30),
                       Entry("/", "p1", "dir", TRUE, 96, 20),
                       Entry("/", "README", "file", TRUE, 10, 5) >>
    [] d = "/p1" -> << Entry("/p1", "file2.csv", "file", TRUE, 2048, 40),
                       Entry("/p1", ".hid", "file", TRUE, 1, 50),
                       Entry("/p1", "file1.txt", "file", TRUE, 100, 60),
                       Entry("/p1", "dir1", "dir", TRUE, 32, 10) >>
    [] OTHER     -> << Entry("/p2", "Zed.txt", "file", TRUE, 7, 70),
                       Entry("/p2", "notes.md", "file", TRUE, 0, 90),
                       Entry("/p2", "dangling", "other", FALSE, 0, 0),
                       Entry("/p2", "alpha.txt", "file", TRUE, 9, 80) >>

AllEntries == UNION { { Scandir(d)[i] : i \in 1..Len(Scandir(d)) } : d \in Dirs }

\* Path.is_dir() / Path.is_file() of an absolute path.
IsDir(p) == p \in Dirs

IsFile(p) == \E e \in AllEntries : e.path = p /\ e.kind = "file"

\* A hidden filter that lets every name through.
StartsWithDot_Never(s) == FALSE

\* name.startswith(".") of the names that occur.
StartsWithDot(s) == s \in {".hid", ".."}

\* str.lower() of the names that occur.
Lower(s) ==
  CASE s = "README"  -> "readme"
    [] s = "NOTES.MD" -> "notes.md"
    [] s = "D"       -> "d"
    [] s = "Me"      -> "me"
    [] s = ".MD"     -> ".md"
    [] s = "Zed.txt" -> "zed.txt"
    [] OTHER         -> s

\* Lexicographic order of the lower-cased names that occur: a name's rank.
NameOrder ==
  << ".hid", "alpha.txt", "dangling", "dir1", "file1.txt", "file2.csv",
     "nd", "new.txt", "notes.md", "p1", "p2", "readme", "zed.txt" >>

NameRank(s) == CHOOSE i \in 1..Len(NameOrder) : NameOrder[i] = s

\* ----------------------------------------------------------------- sorting

SortKeys == <<"name", "size", "modified">>

NextSortKey(k) ==
  LET idx == CHOOSE i \in 1..3 : SortKeys[i] = k
  IN  SortKeys[(idx % 3) + 1]

\* A size key that puts entries without a stat result last.
SortFunc_UnknownLast(e, sort_key, cached) ==
  CASE sort_key = "size"     -> IF cached /\ e.st THEN e.size ELSE 1000000
    [] sort_key = "modified" -> IF cached /\ e.st THEN 0 - e.mtime ELSE 0
    [] OTHER                 -> NameRank(Lower(e.name))

\* _sort_func: the key of one entry; cached = the entry is in stat_cache.
SortFunc(e, sort_key, cached) ==
  CASE sort_key = "size"     -> IF cached /\ e.st THEN e.size ELSE 0
    [] sort_key = "modified" -> IF cached /\ e.st THEN 0 - e.mtime ELSE 0
    [] OTHER                 -> NameRank(Lower(e.name))

RECURSIVE InsertByKey(_, _, _, _)
\* Insert e after every element of the sorted s whose key is <= its own.
InsertByKey(s, e, sort_key, cached) ==
  IF s = << >> THEN << e >>
  ELSE IF SortFunc(e, sort_key, cached) < SortFunc(Head(s), sort_key, cached)
       THEN << e >> \o s
       ELSE << Head(s) >> \o InsertByKey(Tail(s), e, sort_key, cached)

RECURSIVE StableSort(_, _, _)
\* list.sort(key=_sort_func): stable, ascending.
StableSort(s, sort_key, cached) ==
  IF s = << >> THEN << >>
  ELSE InsertByKey(StableSort(SubSeq(s, 1, Len(s) - 1), sort_key, cached),
                   s[Len(s)], sort_key, cached)

\* The result of one scan: scandir, hidden filter, partition, sort, dirs + files.
\* cached: stat_cache was filled (_sort_key was SIZE or MODIFIED when it was
\* tested); sort_key: _sort_key as read for _sort_func.
\* One sort over all entries, without the partition.
ListingOf_Unpartitioned(yielded, hidden, cached, sort_key) ==
  StableSort(SelectSeq(yielded, LAMBDA e : hidden \/ ~StartsWithDot(e.name)),
             sort_key, cached)

ListingOf(yielded, hidden, cached, sort_key) ==
  LET scan   == SelectSeq(yielded,
                          LAMBDA e : hidden \/ ~StartsWithDot(e.name))
      dirs   == SelectSeq(scan, LAMBDA e : e.kind = "dir")
      files  == SelectSeq(scan, LAMBDA e : e.kind # "dir")
  IN  StableSort(dirs, sort_key, cached) \o StableSort(files, sort_key, cached)

Listing(d, hidden, cached, sort_key) ==
  ListingOf(Scandir(d), hidden, cached, sort_key)

\* ---------------------------------------------------------- viewer registry

\* The viewer classes, by supported_extensions() (of the extensions that
\* occur) and priority().
TextViewer ==
  [cls |-> "TextViewer", exts |-> {".txt", ".md", ".yaml", ".toml"},
   priority |-> -1]

ParquetViewer ==
  [cls |-> "ParquetViewer", exts |-> {".parquet"}, priority |-> 10]

CsvViewer == [cls |-> "CsvViewer", exts |-> {".csv"}, priority |-> 10]

JsonViewer == [cls |-> "JsonViewer", exts |-> {".json"}, priority |-> 5]

MarkdownViewer == [cls |-> "MarkdownViewer", exts |-> {".md"}, priority |-> 5]

YamlViewer == [cls |-> "YamlViewer", exts |-> {".yaml"}, priority |-> 5]

TomlViewer == [cls |-> "TomlViewer", exts |-> {".toml"}, priority |-> 5]

FallbackViewer == [cls |-> "FallbackViewer", exts |-> {}, priority |-> -100]

\* Two further BaseViewer subclasses a caller may register: one that competes
\* with MarkdownViewer at its priority, one with the default priority.
NotesViewer == [cls |-> "NotesViewer", exts |-> {".md"}, priority |-> 5]

PlainViewer == [cls |-> "PlainViewer", exts |-> {".md", ".csv"}, priority |-> 0]

\* "best = None"
NoClass == [cls |-> "None", exts |-> {}, priority |-> 0]

\* The registrations app.py makes when it is imported, in order.
AppViewers ==
  << TextViewer, ParquetViewer, CsvViewer, JsonViewer, MarkdownViewer,
     YamlViewer, TomlViewer, FallbackViewer >>

\* The classes registered in the registry specification.
ViewerClasses ==
  { TextViewer, CsvViewer, MarkdownViewer, FallbackViewer, NotesViewer,
    PlainViewer }

\* Paths passed to get_viewer: name, path.suffix, and what the peek at the
\* first 512 bytes finds: "text" (no NUL byte), "nul" or "oserror".
QueryPaths ==
  { [name |-> "notes.md", suffix |-> ".md"],
    [name |-> "NOTES.MD", suffix |-> ".MD"],
    [name |-> "data.csv", suffix |-> ".csv"],
    [name |-> "README", suffix |-> ""],
    [name |-> "blob.bin", suffix |-> ".bin"],
    [name |-> "report.csv", suffix |-> ".csv"],
    [name |-> "notes.txt", suffix |-> ".txt"],
    [name |-> "data.bin", suffix |-> ".bin"] }

Queries ==
  { [name |-> p.name, suffix |-> p.suffix, peek |-> k] :
      p \in QueryPaths, k \in {"text", "nul", "oserror"} }

NoQuery == [name |-> NoPath, suffix |-> "", peek |-> "oserror"]

\* _TEXT_FILENAMES, of the names that occur.
TextFilenames == {"readme", "makefile", "license"}

\* A heuristic that only peeks at the bytes and knows no file name.
IsLikelyText_PeekOnly(q) == q.peek = "text"

\* _is_likely_text(path)
IsLikelyText(q) == Lower(q.name) \in TextFilenames \/ q.peek = "text"

\* float("-inf")
NegInf == [inf |-> TRUE, v |-> 0]

\* A comparison that lets an equal priority replace the best one.
GreaterThan_OrEqual(p, best_priority) ==
  best_priority.inf \/ p >= best_priority.v

\* "p > best_priority"
GreaterThan(p, best_priority) == best_priority.inf \/ p > best_priority.v

\* get_viewer's loop over the first n registered classes: best, best_priority.
RECURSIVE BestAmong(_, _, _)
BestAmong(vs, ext, n) ==
  IF n = 0 THEN [best |-> NoClass, best_priority |-> NegInf]
  ELSE LET b == BestAmong(vs, ext, n - 1)
       IN  IF ext \in vs[n].exts /\ GreaterThan(vs[n].priority, b.best_priority)
           THEN [best |-> vs[n],
                 best_priority |-> [inf |-> FALSE, v |-> vs[n].priority]]
           ELSE b

\* A get_viewer that never looks at the file: with no supporting class it
\* returns FallbackViewer.
GetViewer_NoSniff(vs, q) ==
  LET best == BestAmong(vs, Lower(q.suffix), Len(vs)).best
  IN  IF best = NoClass THEN FallbackViewer ELSE best

\* get_viewer(path)
GetViewer(vs, q) ==
  LET best == BestAmong(vs, Lower(q.suffix), Len(vs)).best
  IN  IF best = NoClass
      THEN IF IsLikelyText(q) THEN TextViewer ELSE FallbackViewer
      ELSE best

\* ------------------------------------------------------------------- state

VARIABLES
  \* FileBrowser
  browser_mounted,   \* on_mount has run
  current_dir,       \* self.current_dir
  load_gen,          \* self._load_gen
  entries,           \* self._entries
  rows,              \* the DataTable's row keys, in display order
  path_map,          \* self._path_map
  cursor,            \* the DataTable's cursor row (0-based), -1 with no rows
  show_hidden,       \* self._show_hidden
  sort_key,          \* self._sort_key
  dir_stack,         \* self._dir_stack
  search_query,      \* self._search_query
  search_matches,    \* self._search_matches
  search_index,      \* self._search_index
  workers,           \* the _load_directory thread workers, by request number
  nreq,              \* _load_directory calls made so far
  \* NcviewApp
  split_view,        \* self._split_view
  visible,           \* the preview panel has class "visible" (full screen)
  preview_path,      \* self._preview_path
  split_pending_path,\* self._split_pending_path
  app_pc,            \* where the app's running handler is suspended, or "idle"
  app_arg,           \* the path the suspended handler works on
  deb,               \* the live _debounce_split_preview workers, by slot
  \* PreviewPanel
  current_viewer,    \* self._current_viewer (a viewer, or NoViewer)
  current_path,      \* self._current_path
  mounted,           \* the viewers mounted under #preview-scroll
  content,           \* what each viewer widget shows, by widget identity
  \* history variables (not program state)
  shown_dir,         \* the directory self._entries was scanned from
  applied_gen,       \* the captured generation of the last applied listing
  last_op,           \* what the last step was: "select" (action_enter_or_open
                     \* on a non-directory), "toggle" (action_toggle_split),
                     \* "skip" (a debounce timer elapsed and loaded nothing),
                     \* "close" (_close_preview), "load" (a viewer's
                     \* content load ended), "other"
  full_from_split,   \* _split_view when full screen was last entered
  burst,             \* the paths scheduled since a debounce timer last elapsed
  \* one scan followed from its inputs to the rows (listing specifications)
  lister,            \* the scan: its position, its inputs and its locals
  markers,           \* the git marker shown on each row that has one
  dir_changed,       \* the path of the DirectoryChanged message last posted
  \* ViewerRegistry
  viewers,           \* self._viewers
  query,             \* the path last passed to get_viewer
  resolved,          \* the class that call returned
  reg_op,            \* the registry method called last
  \* browsing (the search and navigation specifications)
  screen,            \* the screen on top: "browser", "pins", or "error" once
                     \* an unhandled exception has ended the app
  browse_op,         \* history: the handler that ran last
  browse_arg,        \* history: the value or path that handler was given
  trail,             \* history: the moves made, as << kind, directory >>
  \* file operations
  disk,              \* the file system: the kind of each path that exists
  rename_path,       \* self._rename_path
  confirm,           \* the path action_delete's _on_result closes over
  op_result,         \* history: how the last file operation ended
  file_ops,          \* history: the file operations submitted so far
  \* persisted lists
  history_file,      \* the list in history.json
  \* PathBar
  pb_path,           \* self._path
  pb_text,           \* what the Static #path-text shows: a path and a branch
  fetch,             \* the _fetch_git_info worker started last
  stale,             \* the cancelled _fetch_git_info worker before it
  bar_op,            \* history: the path bar step made last
  pins_file,         \* the list in pins.json
  pin_op,            \* history: "add" or "remove", the call made last
  pin_arg,           \* history: the resolved path that call was made on
  pin_ret            \* history: what add_pin returned

browserVars == << browser_mounted, current_dir, load_gen, entries, rows, path_map,
                  cursor, show_hidden, sort_key, dir_stack, search_query,
                  search_matches, search_index, workers, nreq >>

appVars == << split_view, visible, preview_path, split_pending_path, app_pc,
              app_arg, deb >>

panelVars == << current_viewer, current_path, mounted, content >>

scanHistory == << shown_dir, applied_gen >>

previewHistory == << last_op, full_from_split, burst >>

listVars == << lister, markers, dir_changed >>

regVars == << viewers, query, resolved, reg_op >>

navVars == << screen, browse_op, browse_arg, trail >>

toolVars == << disk, rename_path, confirm, op_result, file_ops, history_file,
              pb_path, pb_text, fetch, stale, bar_op, pins_file, pin_op,
              pin_arg, pin_ret >>

vars == << browserVars, appVars, panelVars, scanHistory, previewHistory,
           listVars, regVars, navVars, toolVars >>

\* ------------------------------------------------------- FileBrowser: scans

\* A worker slot before its _load_directory call.
NoWorker ==
  [pc |-> "none", tmp |-> 0, gen |-> 0, dir |-> NoPath, hidden |-> FALSE,
   cached |-> FALSE, sort_key |-> "name"]

\* A worker whose function has returned: only its captured generation is kept.
Finished(wk, how) == [NoWorker EXCEPT !.pc = how, !.gen = wk.gen]

\* @work(thread=True, exclusive=True): the call cancels the group's workers and
\* queues a new one.  A worker whose thread has not begun never runs once
\* cancelled; a running thread is not interrupted.
SpawnScan(ws, n) ==
  [w \in 1..MaxScans |->
     IF w = n THEN [NoWorker EXCEPT !.pc = "pending"]
     ELSE IF ws[w].pc = "pending" THEN [ws[w] EXCEPT !.pc = "cancelled"]
     ELSE ws[w]]

\* The main-thread half of a _load_directory() call.
RequestScan ==
  /\ nreq < MaxScans
  /\ nreq' = nreq + 1
  /\ workers' = SpawnScan(workers, nreq + 1)

\* on_mount: the first scan.
OnMount ==
  /\ ~browser_mounted
  /\ browser_mounted' = TRUE
  /\ RequestScan
  /\ UNCHANGED << current_dir, load_gen, entries, rows, path_map, cursor,
                  show_hidden, sort_key, dir_stack, search_query, search_matches,
                  search_index, shown_dir, applied_gen >>
  /\ UNCHANGED << appVars, panelVars, previewHistory, listVars, regVars, navVars, toolVars >>

\* _navigate_to(path): parent, child, home, pin and history jumps.
NavigateTo(path) ==
  /\ browser_mounted
  /\ IsDir(path) /\ path # current_dir
  /\ dir_stack' = Append(dir_stack, current_dir)
  /\ current_dir' = path
  /\ RequestScan
  /\ UNCHANGED << browser_mounted, load_gen, entries, rows, path_map, cursor,
                  show_hidden, sort_key, search_query, search_matches,
                  search_index, shown_dir, applied_gen >>
  /\ UNCHANGED << appVars, panelVars, previewHistory, listVars, regVars, navVars, toolVars >>

\* action_go_back
GoBack ==
  /\ browser_mounted
  /\ dir_stack # << >>
  /\ current_dir' = dir_stack[Len(dir_stack)]
  /\ dir_stack' = SubSeq(dir_stack, 1, Len(dir_stack) - 1)
  /\ RequestScan
  /\ UNCHANGED << browser_mounted, load_gen, entries, rows, path_map, cursor,
                  show_hidden, sort_key, search_query, search_matches,
                  search_index, shown_dir, applied_gen >>
  /\ UNCHANGED << appVars, panelVars, previewHistory, listVars, regVars, navVars, toolVars >>

\* action_toggle_hidden
ToggleHidden ==
  /\ browser_mounted
  /\ show_hidden' = ~show_hidden
  /\ RequestScan
  /\ UNCHANGED << browser_mounted, current_dir, load_gen, entries, rows, path_map,
                  cursor, sort_key, dir_stack, search_query, search_matches,
                  search_index, shown_dir, applied_gen >>
  /\ UNCHANGED << appVars, panelVars, previewHistory, listVars, regVars, navVars, toolVars >>

\* action_cycle_sort
CycleSort ==
  /\ browser_mounted
  /\ sort_key' = NextSortKey(sort_key)
  /\ RequestScan
  /\ UNCHANGED << browser_mounted, current_dir, load_gen, entries, rows, path_map,
                  cursor, show_hidden, dir_stack, search_query, search_matches,
                  search_index, shown_dir, applied_gen >>
  /\ UNCHANGED << appVars, panelVars, previewHistory, listVars, regVars, navVars, toolVars >>

\* What a worker step leaves alone: everything but the worker's own record
\* (and, for the generation write, _load_gen).
WorkerFrame ==
  /\ UNCHANGED << browser_mounted, current_dir, entries, rows, path_map, cursor,
                  show_hidden, sort_key, dir_stack, search_query, search_matches,
                  search_index, nreq, shown_dir, applied_gen >>
  /\ UNCHANGED << appVars, panelVars, previewHistory, listVars, regVars, navVars, toolVars >>

\* The value stored by "self._load_gen += 1" from the value it loaded.
Incremented(loaded) == loaded + 1

\* "self._load_gen += 1", first half: the worker thread loads the attribute.
WorkerLoadGen(w) ==
  /\ workers[w].pc = "pending"
  /\ workers' = [workers EXCEPT ![w].pc = "store", ![w].tmp = load_gen]
  /\ UNCHANGED load_gen
  /\ WorkerFrame

\* "self._load_gen += 1", second half: the worker thread stores the sum.
WorkerStoreGen(w) ==
  /\ workers[w].pc = "store"
  /\ load_gen' = Incremented(workers[w].tmp)
  /\ workers' = [workers EXCEPT ![w].pc = "capture", ![w].tmp = 0]
  /\ WorkerFrame

\* "gen = self._load_gen"
WorkerCapture(w) ==
  /\ workers[w].pc = "capture"
  /\ workers' = [workers EXCEPT ![w].pc = "scandir", ![w].gen = load_gen]
  /\ UNCHANGED load_gen
  /\ WorkerFrame

\* os.scandir(self.current_dir)
WorkerScandir(w) ==
  /\ workers[w].pc = "scandir"
  /\ workers' = [workers EXCEPT ![w].pc = "filter", ![w].dir = current_dir]
  /\ UNCHANGED load_gen
  /\ WorkerFrame

\* "if not self._show_hidden" and the partition
WorkerFilter(w) ==
  /\ workers[w].pc = "filter"
  /\ workers' = [workers EXCEPT ![w].pc = "stat", ![w].hidden = show_hidden]
  /\ UNCHANGED load_gen
  /\ WorkerFrame

\* "if self._sort_key in (SIZE, MODIFIED)": fill stat_cache
WorkerStat(w) ==
  /\ workers[w].pc = "stat"
  /\ workers' = [workers EXCEPT ![w].pc = "sort",
                                ![w].cached = (sort_key \in {"size", "modified"})]
  /\ UNCHANGED load_gen
  /\ WorkerFrame

\* "sort_key = self._sort_key", the two sorts, the sizes
WorkerSort(w) ==
  /\ workers[w].pc = "sort"
  /\ workers' = [workers EXCEPT ![w].pc = "git", ![w].sort_key = sort_key]
  /\ UNCHANGED load_gen
  /\ WorkerFrame

\* _get_git_status(): the probe runs, up to its timeout, before the hand-over.
\* Its markers only decorate the row labels, which are not modelled.
WorkerGitStatus(w) ==
  /\ workers[w].pc = "git"
  /\ workers' = [workers EXCEPT ![w].pc = "check"]
  /\ UNCHANGED load_gen
  /\ WorkerFrame

\* "if gen != self._load_gen: return", else call_from_thread(_populate_list, ...)
WorkerCheck(w) ==
  /\ workers[w].pc = "check"
  /\ workers' = [workers EXCEPT
                   ![w] = IF workers[w].gen # load_gen
                          THEN Finished(workers[w], "dropped")
                          ELSE [workers[w] EXCEPT !.pc = "handoff"]]
  /\ UNCHANGED load_gen
  /\ WorkerFrame

\* Whether _populate_list(gen, ...) goes on past its generation check.
PopulateAccepts(gen) == gen = load_gen

\* The row keys _populate_list builds: ".." unless at the root, then the names.
RowKeys(dir, es) ==
  (IF dir # Root THEN << ".." >> ELSE << >>) \o [i \in 1..Len(es) |-> es[i].name]

\* The _path_map _populate_list builds.
PathMap(dir, es) ==
  [k \in { RowKeys(dir, es)[i] : i \in 1..Len(RowKeys(dir, es)) } |->
     IF \E i \in 1..Len(es) : es[i].name = k
     THEN (CHOOSE e \in { es[i] : i \in 1..Len(es) } : e.name = k).path
     ELSE Parent(dir)]

\* A listing applied with the search left as it was.
ClearSearch_Keep == UNCHANGED << search_query, search_matches, search_index >>

\* _populate_list: "Clear search state on directory change"
ClearSearch ==
  /\ search_query' = ""
  /\ search_matches' = << >>
  /\ search_index' = -1

\* _populate_list, run on the main thread by call_from_thread.
PopulateList(w) ==
  /\ workers[w].pc = "handoff"
  /\ IF PopulateAccepts(workers[w].gen)
     THEN LET es == Listing(workers[w].dir, workers[w].hidden,
                            workers[w].cached, workers[w].sort_key)
          IN  /\ entries' = es
              /\ rows' = RowKeys(current_dir, es)
              /\ path_map' = PathMap(current_dir, es)
              /\ cursor' = IF Len(RowKeys(current_dir, es)) > 0 THEN 0 ELSE -1
              /\ ClearSearch
              /\ shown_dir' = workers[w].dir
              /\ applied_gen' = workers[w].gen
              /\ workers' = [workers EXCEPT ![w] = Finished(workers[w], "applied")]
     ELSE /\ workers' = [workers EXCEPT ![w] = Finished(workers[w], "dropped")]
          /\ UNCHANGED << entries, rows, path_map, cursor, search_query,
                          search_matches, search_index, shown_dir,
                          applied_gen >>
  /\ UNCHANGED << browser_mounted, current_dir, load_gen, show_hidden, sort_key,
                  dir_stack, nreq >>
  /\ UNCHANGED << appVars, panelVars, previewHistory, listVars, regVars, navVars, toolVars >>

\* Paths handed to _navigate_to: the directories, and one path that is a file.
NavTargets == Dirs \cup {"/p1/file1.txt"}

NoViewer == [id |-> 0, path |-> NoPath]

\* A free debounce worker slot.  path is the worker's local "path"; sched and
\* burst are history: the pending path when the worker was scheduled, and the
\* paths scheduled since the previous timer elapsed, as of its own elapsing.
NoDebounce == [pc |-> "none", path |-> NoPath, sched |-> NoPath, burst |-> {}]

\* Preview state after NcviewApp.__init__ and PreviewPanel.__init__.
PreviewInit ==
  /\ split_view = FALSE
  /\ visible = FALSE
  /\ preview_path = NoPath
  /\ split_pending_path = NoPath
  /\ app_pc = "idle"
  /\ app_arg = NoPath
  /\ deb = [d \in 1..MaxDebounce |-> NoDebounce]
  /\ current_viewer = NoViewer
  /\ current_path = NoPath
  /\ mounted = {}
  /\ content = [i \in 1..MaxViewers |-> "none"]
  /\ last_op = "other"
  /\ full_from_split = FALSE
  /\ burst = {}

\* No git marker on any row.
NoStatus == [n \in {} |-> "  "]

\* A `git status` run that exits non-zero with no output (not a repository).
NoGit == [outcome |-> "nonzero", lines |-> << >>]

\* The followed scan before it is requested.  ok, scan: whether os.scandir
\* succeeds and what it yields; git: how the probe runs; gen, es, status: the
\* worker's locals gen, all_entries and git_status.
NoLister ==
  [pc |-> "none", ok |-> TRUE, scan |-> << >>, git |-> NoGit, gen |-> 0,
   es |-> << >>, status |-> NoStatus]

\* The registry as the app's import leaves it, with no call made.
RegistryIdle ==
  /\ viewers = AppViewers
  /\ query = NoQuery
  /\ resolved = NoClass
  /\ reg_op = "none"

\* The browser on screen with no handler run yet, started in dir.
BrowseIdle(dir) ==
  /\ screen = "browser"
  /\ browse_op = "none"
  /\ browse_arg = NoPath
  /\ trail = << << "start", dir >> >>

\* The components of the absolute paths that occur: Path.parts, less the
\* root.
PathParts(p) ==
  CASE p = "/"               -> << >>
    [] p = "/p1"             -> << "p1" >>
    [] p = "/p2"             -> << "p2" >>
    [] p = "/README"         -> << "README" >>
    [] p = "/p1/file1.txt"   -> << "p1", "file1.txt" >>
    [] p = "/p1/file2.csv"   -> << "p1", "file2.csv" >>
    [] p = "/p1/.hid"        -> << "p1", ".hid" >>
    [] p = "/p1/dir1"        -> << "p1", "dir1" >>
    [] p = "/p1/dir1/a.txt"  -> << "p1", "dir1", "a.txt" >>
    [] p = "/p1/new.txt"     -> << "p1", "new.txt" >>
    [] p = "/p1/nd"          -> << "p1", "nd" >>
    [] p = "/p1/nd/a.txt"    -> << "p1", "nd", "a.txt" >>
    [] p = "/p1/nd/new.txt"  -> << "p1", "nd", "new.txt" >>
    [] p = "/p1/nd/sub"      -> << "p1", "nd", "sub" >>
    [] p = "/p2/Zed.txt"     -> << "p2", "Zed.txt" >>
    [] p = "/p2/notes.md"    -> << "p2", "notes.md" >>
    [] p = "/p2/dangling"    -> << "p2", "dangling" >>
    [] p = "/p2/alpha.txt"   -> << "p2", "alpha.txt" >>
    [] OTHER                 -> << "?" >>

\* The file system the application is started on: the kind of each path
\* there is, by its components.
StartDisk ==
  [parts \in { PathParts(p) :
                p \in Dirs \cup { e.path : e \in AllEntries }
                       \cup {"/p1/dir1/a.txt"} } |->
     IF parts \in { PathParts(d) : d \in Dirs } THEN "dir"
     ELSE IF parts = PathParts("/p1/dir1/a.txt") THEN "file"
     ELSE (CHOOSE e \in AllEntries : PathParts(e.path) = parts).kind]

\* "branch=None"
NoBranch == "<no branch>"

\* A _fetch_git_info worker that is not running.
NoFetch == [pc |-> "none", path |-> NoPath]

\* The path bar before on_mount and an empty history.json.
BarIdle ==
  /\ history_file = << >>
  /\ pb_path = NoPath
  /\ pb_text = [path |-> NoPath, branch |-> NoBranch]
  /\ fetch = NoFetch
  /\ stale = NoFetch
  /\ bar_op = "none"

\* An empty pins.json and no call made.
PinsIdle ==
  /\ pins_file = << >>
  /\ pin_op = "none"
  /\ pin_arg = NoPath
  /\ pin_ret = FALSE

\* No file operation begun.
ToolsIdle ==
  /\ disk = StartDisk
  /\ rename_path = NoPath
  /\ confirm = NoPath
  /\ op_result = "none"
  /\ file_ops = 0
  /\ BarIdle
  /\ PinsIdle

\* The listing variables where no scan is followed.
ListIdle ==
  /\ lister = NoLister
  /\ markers = NoStatus
  /\ dir_changed = NoPath

\* The start_path the application is run on.
StartPath == "/p1"

\* The browser after FileBrowser.__init__(start_path), before on_mount.
InitScan ==
  /\ browser_mounted = FALSE
  /\ current_dir = StartPath
  /\ load_gen = 0
  /\ entries = << >>
  /\ rows = << >>
  /\ path_map = [k \in {} |-> NoPath]
  /\ cursor = -1
  /\ show_hidden = FALSE
  /\ sort_key = "name"
  /\ dir_stack = << >>
  /\ search_query = ""
  /\ search_matches = << >>
  /\ search_index = -1
  /\ workers = [w \in 1..MaxScans |-> NoWorker]
  /\ nreq = 0
  /\ shown_dir = NoPath
  /\ applied_gen = 0
  /\ PreviewInit
  /\ ListIdle
  /\ BrowseIdle(current_dir)
  /\ ToolsIdle
  /\ RegistryIdle

NextScan ==
  \/ OnMount
  \/ \E p \in NavTargets : NavigateTo(p)
  \/ GoBack
  \/ ToggleHidden
  \/ CycleSort
  \/ \E w \in 1..MaxScans :
       \/ WorkerLoadGen(w)
       \/ WorkerStoreGen(w)
       \/ WorkerCapture(w)
       \/ WorkerScandir(w)
       \/ WorkerFilter(w)
       \/ WorkerStat(w)
       \/ WorkerSort(w)
       \/ WorkerGitStatus(w)
       \/ WorkerCheck(w)
       \/ PopulateList(w)

SpecScan == InitScan /\ [][NextScan]_vars

\* ------------------------------------------------------------ PreviewPanel

\* The panel's fields as one value: cv = _current_viewer, cp = _current_path,
\* m = the viewers mounted under #preview-scroll.
Panel == [cv |-> current_viewer, cp |-> current_path, m |-> mounted]

\* BaseViewer.on_mount: a viewer starts loading its content when it is
\* mounted; a removed viewer shows nothing.
ContentAfter(m) ==
  [i \in 1..MaxViewers |->
     IF i \notin { v.id : v \in m } THEN "none"
     ELSE IF i \in { v.id : v \in mounted } THEN content[i]
     ELSE "loading"]

SetPanel(P) ==
  /\ current_viewer' = P.cv
  /\ current_path' = P.cp
  /\ mounted' = P.m
  /\ content' = ContentAfter(P.m)

\* Identities of the viewer widgets that exist: mounted, or still referenced.
UsedIds(P) == { v.id : v \in P.m \cup {P.cv} }

\* A new viewer widget can be told apart from the existing ones.
CanConstructIn(P) == \E i \in 1..MaxViewers : i \notin UsedIds(P)

\* The identity of the next viewer widget (0 when the bound is exhausted; the
\* callers test CanConstruct first).
FreshId(P) ==
  IF CanConstructIn(P)
  THEN CHOOSE i \in 1..MaxViewers :
         /\ i \notin UsedIds(P)
         /\ \A j \in 1..(i - 1) : j \in UsedIds(P)
  ELSE 0

\* show_file, "viewer = viewer_cls(path)" to "scroll.mount(viewer)": the
\* viewer is registered under the scroll container when mount() is called.
Construct(P, path) ==
  LET v == [id |-> FreshId(P), path |-> path]
  IN  [P EXCEPT !.cv = v, !.m = P.m \cup {v}]

\* show_file recording no path.
ShowFilePath_Unrecorded(path) == NoPath

\* The path show_file records as current when it starts.
ShowFilePath(path) == path

\* show_file up to its first await: at = "rm" (awaiting the old viewer's
\* removal), "mount" (awaiting the new viewer's mount) or "return".
ShowFileBegin(P, path) ==
  IF IsDir(path) THEN [panel |-> P, at |-> "return"]
  ELSE LET P1 == [P EXCEPT !.cp = ShowFilePath(path)]
       IN  IF P1.cv # NoViewer
           THEN [panel |-> [P1 EXCEPT !.m = P1.m \ {P1.cv}], at |-> "rm"]
           ELSE [panel |-> Construct(P1, path), at |-> "mount"]

\* show_file from the return of "await self._current_viewer.remove()" to its
\* second await.
ShowFileAfterRemove(P, path) == Construct([P EXCEPT !.cv = NoViewer], path)

\* clear() up to its await: at = "clr" or "return".
ClearBegin(P) ==
  IF P.cv # NoViewer
  THEN [panel |-> [P EXCEPT !.m = P.m \ {P.cv}], at |-> "clr"]
  ELSE [panel |-> P, at |-> "return"]

\* clear() after its await.
ClearAfterRemove(P) == [P EXCEPT !.cv = NoViewer, !.cp = NoPath]

\* The next viewer construction stays within the bound.
CanConstruct == CanConstructIn([Panel EXCEPT !.cv = NoViewer])

\* --------------------------------------------------------------- NcviewApp

\* _preview_is_open()
PreviewIsOpen == visible

\* FileBrowser._get_highlighted_path()
HighlightedPath ==
  IF Len(rows) = 0 \/ cursor < 0 THEN NoPath ELSE path_map[rows[cursor + 1]]

\* The view mode of the spec's PreviewState, read off the app's flags.
Mode ==
  IF PreviewIsOpen THEN "FullScreen"
  ELSE IF split_view THEN "Split" ELSE "Closed"

\* A scheduling that leaves the group's earlier workers running.
CancelGroup_Keep(ds) == ds

\* @work(exclusive=True, group="split-preview"): the call first cancels the
\* group's workers; a coroutine worker stops at the await it is suspended at.
CancelGroup(ds) == [d \in 1..MaxDebounce |-> NoDebounce]

FreeSlot(ds) == CHOOSE d \in 1..MaxDebounce :
                  /\ ds[d].pc = "none"
                  /\ \A e \in 1..(d - 1) : ds[e].pc # "none"

\* "self._split_pending_path = path; self._debounce_split_preview()": the new
\* worker begins by sleeping.
ScheduleDebounce(path) ==
  LET ds == CancelGroup(deb)
  IN  /\ \E d \in 1..MaxDebounce : ds[d].pc = "none"
      /\ split_pending_path' = path
      /\ deb' = [ds EXCEPT ![FreeSlot(ds)] =
                   [NoDebounce EXCEPT !.pc = "sleep", !.sched = path]]
      /\ burst' = burst \cup {path}

\* _on_file_highlighted goes on past its first test.
HighlightHandled == split_view /\ ~PreviewIsOpen

\* The test after the sleep without its view-mode part.
DebounceMayLoad_NoModeTest(path) == path # NoPath /\ IsFile(path)

\* _debounce_split_preview's test after the sleep.
DebounceMayLoad(path) ==
  path # NoPath /\ IsFile(path) /\ split_view /\ ~PreviewIsOpen

\* action_toggle_split without its first test.
ToggleAllowed_Always == TRUE

\* action_toggle_split goes on past its first test.
ToggleAllowed == ~PreviewIsOpen

\* _close_preview always taking its browser-only branch.
CloseReturnsToSplit_Never == FALSE

\* _close_preview returns to the split layout.
CloseReturnsToSplit == split_view

browserRest == << browser_mounted, current_dir, load_gen, entries, rows, path_map,
                  show_hidden, sort_key, dir_stack, search_query, search_matches,
                  search_index, workers, nreq >>

\* The cursor moves to row r (j/k, g/G, a search jump): RowHighlighted, then
\* FileHighlighted handled by _on_file_highlighted.
MoveCursor(r) ==
  /\ app_pc = "idle"
  /\ r \in 0..(Len(rows) - 1) /\ r # cursor
  /\ cursor' = r
  /\ last_op' = "other"
  /\ LET path == path_map[rows[r + 1]]
     IN  IF HighlightHandled /\ IsFile(path)
         THEN ScheduleDebounce(path)
         ELSE UNCHANGED << split_pending_path, deb, burst >>
  /\ UNCHANGED << split_view, visible, preview_path, app_pc, app_arg,
                  full_from_split >>
  /\ UNCHANGED << browserRest, panelVars, scanHistory, listVars, regVars, navVars, toolVars >>

\* action_enter_or_open on a row that is not a directory: FileSelected, then
\* _on_file_selected up to show_file's first await.  (On a directory the
\* action is NavigateTo.)
EnterOrOpen ==
  /\ app_pc = "idle"
  /\ HighlightedPath # NoPath /\ ~IsDir(HighlightedPath)
  /\ last_op' = "select"
  /\ IF ~IsFile(HighlightedPath)
     THEN UNCHANGED << app_pc, app_arg, panelVars >>
     ELSE LET r == ShowFileBegin(Panel, HighlightedPath)
          IN  /\ r.at = "mount" => CanConstruct
              /\ SetPanel(r.panel)
              /\ app_pc' = IF r.at = "rm" THEN "sel_rm" ELSE "sel_mount"
              /\ app_arg' = HighlightedPath
  /\ UNCHANGED << split_view, visible, preview_path, split_pending_path, deb,
                  full_from_split, burst >>
  /\ UNCHANGED << browserVars, scanHistory, listVars, regVars, navVars, toolVars >>

\* _on_file_selected resumes inside show_file after the old viewer's removal.
SelectAfterRemove ==
  /\ app_pc = "sel_rm"
  /\ CanConstruct
  /\ SetPanel(ShowFileAfterRemove(Panel, app_arg))
  /\ app_pc' = "sel_mount"
  /\ last_op' = "other"
  /\ UNCHANGED << split_view, visible, preview_path, split_pending_path, app_arg,
                  deb, full_from_split, burst >>
  /\ UNCHANGED << browserVars, scanHistory, listVars, regVars, navVars, toolVars >>

\* _on_file_selected after "await preview.show_file(event.path)".
SelectFinish ==
  /\ app_pc = "sel_mount"
  /\ preview_path' = app_arg
  /\ visible' = TRUE
  /\ app_pc' = "idle"
  /\ app_arg' = NoPath
  /\ full_from_split' = split_view
  /\ last_op' = "other"
  /\ UNCHANGED << split_view, split_pending_path, deb, burst >>
  /\ UNCHANGED << browserVars, panelVars, scanHistory, listVars, regVars, navVars, toolVars >>

\* The branch of action_toggle_split and _close_preview that enters the split
\* layout: schedule a load for the highlighted file.
EnterSplitLayout ==
  /\ IF HighlightedPath # NoPath /\ IsFile(HighlightedPath)
     THEN ScheduleDebounce(HighlightedPath)
     ELSE UNCHANGED << split_pending_path, deb, burst >>
  /\ UNCHANGED << app_pc, panelVars >>

\* The branch that leaves for the browser-only layout: preview.clear() up to
\* its await; handler is "tog_clr" or "close_clr".
EnterBrowserOnly(handler) ==
  /\ LET r == ClearBegin(Panel)
     IN  /\ SetPanel(r.panel)
         /\ app_pc' = IF r.at = "clr" THEN handler ELSE "idle"
  /\ UNCHANGED << split_pending_path, deb, burst >>

\* action_toggle_split's body.
ToggleSplit ==
  IF ~ToggleAllowed
  THEN UNCHANGED << split_view, split_pending_path, deb, burst, app_pc,
                    panelVars >>
  ELSE /\ split_view' = ~split_view
       /\ IF ~split_view THEN EnterSplitLayout ELSE EnterBrowserOnly("tog_clr")

\* _close_preview's body.
ClosePreview ==
  /\ preview_path' = NoPath
  /\ visible' = FALSE
  /\ IF CloseReturnsToSplit THEN EnterSplitLayout ELSE EnterBrowserOnly("close_clr")
  /\ UNCHANGED split_view

\* Key P: action_toggle_split.
ActionToggleSplit ==
  /\ app_pc = "idle"
  /\ last_op' = "toggle"
  /\ ToggleSplit
  /\ UNCHANGED << visible, preview_path, app_arg, full_from_split >>
  /\ UNCHANGED << browserVars, scanHistory, listVars, regVars, navVars, toolVars >>

\* Key escape: action_close_preview.
ActionClosePreview ==
  /\ app_pc = "idle"
  /\ last_op' = IF PreviewIsOpen THEN "close" ELSE "other"
  /\ IF PreviewIsOpen THEN ClosePreview
     ELSE /\ split_view
          /\ ToggleSplit
          /\ UNCHANGED << visible, preview_path >>
  /\ UNCHANGED << app_arg, full_from_split >>
  /\ UNCHANGED << browserVars, scanHistory, listVars, regVars, navVars, toolVars >>

\* Keys h / backspace / left: action_close_preview_or_parent with the preview
\* open.  (With it closed the browser's own binding goes to the parent.)
ActionClosePreviewOrParent ==
  /\ app_pc = "idle"
  /\ PreviewIsOpen
  /\ last_op' = "close"
  /\ ClosePreview
  /\ UNCHANGED << app_arg, full_from_split >>
  /\ UNCHANGED << browserVars, scanHistory, listVars, regVars, navVars, toolVars >>

\* action_toggle_split or _close_preview resumes after "await preview.clear()".
AfterClear ==
  /\ app_pc \in {"tog_clr", "close_clr"}
  /\ SetPanel(ClearAfterRemove(Panel))
  /\ app_pc' = "idle"
  /\ last_op' = "other"
  /\ UNCHANGED << split_view, visible, preview_path, split_pending_path, app_arg,
                  deb, full_from_split, burst >>
  /\ UNCHANGED << browserVars, scanHistory, listVars, regVars, navVars, toolVars >>

\* What a step of a debounce worker leaves alone.
DebounceFrame ==
  /\ UNCHANGED << split_view, visible, preview_path, split_pending_path, app_pc,
                  app_arg, full_from_split >>
  /\ UNCHANGED << browserVars, scanHistory, listVars, regVars, navVars, toolVars >>

\* _debounce_split_preview when its sleep ends: the test, then show_file up to
\* its first await.
DebounceWake(d) ==
  /\ deb[d].pc = "sleep"
  /\ burst' = {}
  /\ LET path == split_pending_path
     IN  IF DebounceMayLoad(path)
         THEN LET r == ShowFileBegin(Panel, path)
              IN  /\ r.at = "mount" => CanConstruct
                  /\ SetPanel(r.panel)
                  /\ deb' = [deb EXCEPT ![d] =
                               IF r.at = "return" THEN NoDebounce
                               ELSE [deb[d] EXCEPT !.pc = r.at, !.path = path,
                                                   !.burst = burst]]
                  /\ last_op' = "other"
         ELSE /\ deb' = [deb EXCEPT ![d] = NoDebounce]
              /\ last_op' = "skip"
              /\ UNCHANGED panelVars
  /\ DebounceFrame

\* The worker resumes inside show_file after the old viewer's removal.
DebounceAfterRemove(d) ==
  /\ deb[d].pc = "rm"
  /\ CanConstruct
  /\ SetPanel(ShowFileAfterRemove(Panel, deb[d].path))
  /\ deb' = [deb EXCEPT ![d].pc = "mount"]
  /\ last_op' = "other"
  /\ UNCHANGED burst
  /\ DebounceFrame

\* The worker resumes after "await scroll.mount(viewer)" and returns.
DebounceAfterMount(d) ==
  /\ deb[d].pc = "mount"
  /\ deb' = [deb EXCEPT ![d] = NoDebounce]
  /\ last_op' = "other"
  /\ UNCHANGED << panelVars, burst >>
  /\ DebounceFrame

\* The directory whose listing the preview specification browses.
PreviewDir == "/p2"

\* The app with the first scan of PreviewDir applied, preview closed.
InitPreview ==
  /\ browser_mounted = TRUE
  /\ current_dir = PreviewDir
  /\ load_gen = 1
  /\ entries = Listing(PreviewDir, FALSE, FALSE, "name")
  /\ rows = RowKeys(PreviewDir, Listing(PreviewDir, FALSE, FALSE, "name"))
  /\ path_map = PathMap(PreviewDir, Listing(PreviewDir, FALSE, FALSE, "name"))
  /\ cursor = 0
  /\ show_hidden = FALSE
  /\ sort_key = "name"
  /\ dir_stack = << >>
  /\ search_query = ""
  /\ search_matches = << >>
  /\ search_index = -1
  /\ workers = [w \in 1..MaxScans |->
                  IF w = 1 THEN [NoWorker EXCEPT !.pc = "applied", !.gen = 1]
                  ELSE NoWorker]
  /\ nreq = 1
  /\ shown_dir = PreviewDir
  /\ applied_gen = 1
  /\ PreviewInit
  /\ ListIdle
  /\ BrowseIdle(current_dir)
  /\ ToolsIdle
  /\ RegistryIdle

NextPreview ==
  \/ \E r \in 0..(Len(rows) - 1) : MoveCursor(r)
  \/ EnterOrOpen
  \/ SelectAfterRemove
  \/ SelectFinish
  \/ ActionToggleSplit
  \/ ActionClosePreview
  \/ ActionClosePreviewOrParent
  \/ AfterClear
  \/ \E d \in 1..MaxDebounce :
       \/ DebounceWake(d)
       \/ DebounceAfterRemove(d)
       \/ DebounceAfterMount(d)

SpecPreview == InitPreview /\ [][NextPreview]_vars

\* ------------------------------------------------------------ viewer loads

\* An escaping exception in place of the inline message.
LoadText_Raises(stat_ok, too_large, read_ok) ==
  IF ~stat_ok \/ (~too_large /\ ~read_ok) THEN "raised"
  ELSE IF too_large THEN "toolarge" ELSE "content"

\* TextViewer._load_text: what the viewer ends up showing.  stat_ok: the
\* file's stat succeeds; too_large: its size exceeds MAX_FILE_SIZE; read_ok:
\* read_text and the highlighting succeed.
LoadText(stat_ok, too_large, read_ok) ==
  IF ~stat_ok THEN "error"
  ELSE IF too_large THEN "toolarge"
  ELSE IF ~read_ok THEN "error"
  ELSE "content"

\* What a viewer can show.
Contents == {"none", "loading", "content", "toolarge", "error"}

\* The load worker of viewer i ends and hands its result to _show_content.
LoadFinish(i) ==
  /\ content[i] = "loading"
  /\ \E stat_ok, too_large, read_ok \in BOOLEAN :
       content' = [content EXCEPT ![i] = LoadText(stat_ok, too_large, read_ok)]
  /\ last_op' = "load"
  /\ UNCHANGED << current_viewer, current_path, mounted, appVars,
                  full_from_split, burst >>
  /\ UNCHANGED << browserVars, scanHistory, listVars, regVars, navVars, toolVars >>

\* The directory whose listing the load specification browses.
LoadDir == "/"

\* The app with the first scan of LoadDir applied, preview closed.
InitLoad ==
  /\ browser_mounted = TRUE
  /\ current_dir = LoadDir
  /\ load_gen = 1
  /\ entries = Listing(LoadDir, FALSE, FALSE, "name")
  /\ rows = RowKeys(LoadDir, Listing(LoadDir, FALSE, FALSE, "name"))
  /\ path_map = PathMap(LoadDir, Listing(LoadDir, FALSE, FALSE, "name"))
  /\ cursor = 0
  /\ show_hidden = FALSE
  /\ sort_key = "name"
  /\ dir_stack = << >>
  /\ search_query = ""
  /\ search_matches = << >>
  /\ search_index = -1
  /\ workers = [w \in 1..MaxScans |->
                  IF w = 1 THEN [NoWorker EXCEPT !.pc = "applied", !.gen = 1]
                  ELSE NoWorker]
  /\ nreq = 1
  /\ shown_dir = LoadDir
  /\ applied_gen = 1
  /\ PreviewInit
  /\ ListIdle
  /\ BrowseIdle(current_dir)
  /\ ToolsIdle
  /\ RegistryIdle

NextLoad ==
  \/ NextPreview
  \/ \E i \in 1..MaxViewers : LoadFinish(i)

SpecLoad == InitLoad /\ [][NextLoad]_vars

\* ------------------------------------------------------- one scan, followed

\* Directory entries os.scandir can yield in directory d: directories and
\* files whose stat succeeds or raises, sizes that are zero or not, and
\* modification times after, at and before the epoch.
PoolEntries(d) ==
  { Entry(d, "dir1", "dir", TRUE, 64, 5),
    Entry(d, "p1", "dir", FALSE, 0, 0),
    Entry(d, "p2", "dir", TRUE, 0, 0 - 2),
    Entry(d, "Zed.txt", "file", TRUE, 0, 7),
    Entry(d, "alpha.txt", "file", TRUE, 9, 0),
    Entry(d, "dangling", "other", FALSE, 0, 0),
    Entry(d, ".hid", "file", TRUE, 3, 3) }

\* What os.scandir can yield in d: up to MaxEntries entries of distinct names,
\* in any order.
Scans(d) ==
  { sq \in UNION { [1..n -> PoolEntries(d)] : n \in 0..MaxEntries } :
      \A i, j \in 1..Len(sq) : i # j => sq[i].name # sq[j].name }

\* Lines of `git status --porcelain` output: short = the line has fewer than
\* four characters; xy = line[:2]; path = line[3:].split("/").  (Paths that
\* git quotes are left out.)
GitLines ==
  { [short |-> FALSE, xy |-> " M", path |-> << "file1.txt" >>],
    [short |-> FALSE, xy |-> "??", path |-> << "dir1", "" >>],
    [short |-> FALSE, xy |-> "A ", path |-> << "dir1", "a.py" >>],
    [short |-> FALSE, xy |-> " D", path |-> << "dir1", "b.py" >>],
    [short |-> FALSE, xy |-> "A ", path |-> << "file2.csv" >>],
    [short |-> TRUE, xy |-> "M ", path |-> << >>] }

\* Outputs of up to MaxLines distinct lines.
GitOutputs ==
  { sq \in UNION { [1..n -> GitLines] : n \in 0..MaxLines } :
      \A i, j \in 1..Len(sq) : i # j => sq[i] # sq[j] }

\* How subprocess.run ends: "ok" (exit 0), "nonzero" (another exit status),
\* "absent" (FileNotFoundError), "timeout" (TimeoutExpired), "oserror".
GitOutcomes == {"ok", "nonzero", "absent", "timeout", "oserror"}

GitRuns == { [outcome |-> o, lines |-> l] : o \in GitOutcomes, l \in GitOutputs }

\* A second line for a name keeping the first line's status.
MixedStatus_KeepFirst(old, xy) == old

\* "status_map[name] = ' M'": the status of a name seen on a second line.
MixedStatus(old, xy) == " M"

\* The body of the loop over result.stdout.splitlines().
StatusStep(m, line) ==
  IF line.short THEN m
  ELSE LET name == Head(line.path)
       IN  IF name \notin DOMAIN m
           THEN [n \in DOMAIN m \cup {name} |->
                   IF n = name THEN line.xy ELSE m[n]]
           ELSE [m EXCEPT ![name] = MixedStatus(m[name], line.xy)]

RECURSIVE ParseStatus(_)
ParseStatus(lines) ==
  IF lines = << >> THEN NoStatus
  ELSE StatusStep(ParseStatus(SubSeq(lines, 1, Len(lines) - 1)),
                  lines[Len(lines)])

\* A failed probe passing on what it managed to read.
GetGitStatus_Partial(git) == ParseStatus(git.lines)

\* _get_git_status()
GetGitStatus(git) ==
  IF git.outcome # "ok" THEN NoStatus ELSE ParseStatus(git.lines)

\* The marker _populate_list puts before a name whose status is xy.
Marker(xy) ==
  CASE xy = "??"                               -> "?"
    [] xy \in {"M ", "A ", "D ", "R ", "C "}   -> "+"
    [] xy = " M"                               -> "~"
    [] xy = " D"                               -> "-"
    [] OTHER                                   -> "*"

\* The markers on the rows of the entries es.
ShownMarkers(es, status) ==
  [n \in { es[i].name : i \in 1..Len(es) } \cap DOMAIN status |->
     Marker(status[n])]

\* A failed read passing on the directory's entries.
Yielded_Unguarded(ok, scan) == scan

\* "try: scan = list(os.scandir(...)) except (PermissionError, OSError): scan = []"
Yielded(ok, scan) == IF ok THEN scan ELSE << >>

\* What the listing actions leave alone.
ListFrame ==
  /\ UNCHANGED << browser_mounted, show_hidden, sort_key, workers >>
  /\ UNCHANGED << appVars, panelVars, previewHistory, regVars, navVars, toolVars >>

\* The body of _load_directory, run by the one worker thread there is.
ListWorker ==
  /\ lister.pc = "pending"
  /\ load_gen' = Incremented(load_gen)
  /\ lister' = [lister EXCEPT
       !.pc = "handoff",
       !.gen = Incremented(load_gen),
       !.es = ListingOf(Yielded(lister.ok, lister.scan), show_hidden,
                        sort_key \in {"size", "modified"}, sort_key),
       !.status = GetGitStatus(lister.git)]
  /\ UNCHANGED << current_dir, entries, rows, path_map, cursor, dir_stack,
                  search_query, search_matches, search_index, nreq, scanHistory,
                  markers, dir_changed >>
  /\ ListFrame

\* _populate_list(gen, all_entries, dir_names, sizes, git_status)
ListPopulate ==
  /\ lister.pc = "handoff"
  /\ PopulateAccepts(lister.gen)
  /\ entries' = lister.es
  /\ rows' = RowKeys(current_dir, lister.es)
  /\ path_map' = PathMap(current_dir, lister.es)
  /\ cursor' = IF Len(RowKeys(current_dir, lister.es)) > 0 THEN 0 ELSE -1
  /\ ClearSearch
  /\ markers' = ShownMarkers(lister.es, lister.status)
  /\ dir_changed' = current_dir
  /\ shown_dir' = current_dir
  /\ applied_gen' = lister.gen
  /\ lister' = [lister EXCEPT !.pc = "done"]
  /\ UNCHANGED << current_dir, load_gen, dir_stack, nreq >>
  /\ ListFrame

\* action_parent_dir once the listing is shown: _navigate_to(parent) and the
\* scan of the parent, which is readable and holds Scandir(parent).
ListParentDir ==
  /\ lister.pc = "done"
  /\ IsDir(Parent(current_dir)) /\ Parent(current_dir) # current_dir
  /\ dir_stack' = Append(dir_stack, current_dir)
  /\ current_dir' = Parent(current_dir)
  /\ nreq' = nreq + 1
  /\ lister' = [NoLister EXCEPT !.pc = "pending",
                                !.scan = Scandir(Parent(current_dir))]
  /\ UNCHANGED << load_gen, entries, rows, path_map, cursor, search_query,
                  search_matches, search_index, scanHistory, markers,
                  dir_changed >>
  /\ ListFrame

NextList ==
  \/ ListWorker
  \/ ListPopulate
  \/ ListParentDir

\* The browser as on_mount leaves it, the first scan requested.
ListStart(dir, l) ==
  /\ browser_mounted = TRUE
  /\ current_dir = dir
  /\ load_gen = 0
  /\ entries = << >>
  /\ rows = << >>
  /\ path_map = [k \in {} |-> NoPath]
  /\ cursor = -1
  /\ dir_stack = << >>
  /\ search_query = ""
  /\ search_matches = << >>
  /\ search_index = -1
  /\ workers = [w \in 1..MaxScans |-> NoWorker]
  /\ nreq = 1
  /\ shown_dir = NoPath
  /\ applied_gen = 0
  /\ PreviewInit
  /\ lister = l
  /\ markers = NoStatus
  /\ dir_changed = NoPath
  /\ RegistryIdle
  /\ BrowseIdle(dir)
  /\ ToolsIdle

\* The directories started in: the root and one below it.
ListDirs == {Root, "/p2"}

\* Any directory content, readable or not, under any view setting; no
\* repository.
InitList ==
  /\ show_hidden \in BOOLEAN
  /\ sort_key \in {"name", "size", "modified"}
  /\ \E dir \in ListDirs, ok \in BOOLEAN :
       \E scan \in Scans(dir) :
         ListStart(dir, [NoLister EXCEPT !.pc = "pending", !.ok = ok,
                                         !.scan = scan])

SpecList == InitList /\ [][NextList]_vars

\* StartPath's content under any run of the probe.
InitGit ==
  /\ show_hidden \in BOOLEAN
  /\ sort_key \in {"name", "size", "modified"}
  /\ \E git \in GitRuns :
       ListStart(StartPath, [NoLister EXCEPT !.pc = "pending",
                                             !.scan = Scandir(StartPath),
                                             !.git = git])

SpecGit == InitGit /\ [][NextList]_vars

\* --------------------------------------------------------------- registry

\* What the registry's methods leave alone.
RegistryFrame ==
  UNCHANGED << browserVars, appVars, panelVars, scanHistory, previewHistory,
               listVars, navVars, toolVars >>

\* register(viewer_cls)
Register(viewer_cls) ==
  /\ Len(viewers) < MaxRegistered
  /\ viewers' = Append(viewers, viewer_cls)
  /\ reg_op' = "register"
  /\ UNCHANGED << query, resolved >>
  /\ RegistryFrame

\* A call of get_viewer(path) and its return value.
CallGetViewer(q) ==
  /\ query' = q
  /\ resolved' = GetViewer(viewers, q)
  /\ reg_op' = "get_viewer"
  /\ UNCHANGED viewers
  /\ RegistryFrame

\* "registry = ViewerRegistry()": nothing registered yet.
InitRegistry ==
  /\ show_hidden = FALSE
  /\ sort_key = "name"
  /\ browser_mounted = TRUE
  /\ current_dir = Root
  /\ load_gen = 0
  /\ entries = << >>
  /\ rows = << >>
  /\ path_map = [k \in {} |-> NoPath]
  /\ cursor = -1
  /\ dir_stack = << >>
  /\ search_query = ""
  /\ search_matches = << >>
  /\ search_index = -1
  /\ workers = [w \in 1..MaxScans |-> NoWorker]
  /\ nreq = 1
  /\ shown_dir = NoPath
  /\ applied_gen = 0
  /\ PreviewInit
  /\ ListIdle
  /\ BrowseIdle(current_dir)
  /\ ToolsIdle
  /\ viewers = << >>
  /\ query = NoQuery
  /\ resolved = NoClass
  /\ reg_op = "none"

NextRegistry ==
  \/ \E viewer_cls \in ViewerClasses : Register(viewer_cls)
  \/ \E q \in Queries : CallGetViewer(q)

SpecRegistry == InitRegistry /\ [][NextRegistry]_vars


\* ------------------------------------------------- FileBrowser: browsing

\* The characters of the lower-cased strings that occur.
Chars(s) ==
  CASE s = ".." -> << ".", "." >>
    [] s = "." -> << "." >>
    [] s = "d" -> << "d" >>
    [] s = "me" -> << "m", "e" >>
    [] s = "p1" -> << "p", "1" >>
    [] s = "p2" -> << "p", "2" >>
    [] s = "readme" -> << "r", "e", "a", "d", "m", "e" >>
    [] s = "file2.csv" -> << "f", "i", "l", "e", "2", ".", "c", "s", "v" >>
    [] s = ".hid" -> << ".", "h", "i", "d" >>
    [] s = "file1.txt" -> << "f", "i", "l", "e", "1", ".", "t", "x", "t" >>
    [] s = "dir1" -> << "d", "i", "r", "1" >>
    [] s = "zed.txt" -> << "z", "e", "d", ".", "t", "x", "t" >>
    [] s = "notes.md" -> << "n", "o", "t", "e", "s", ".", "m", "d" >>
    [] s = "dangling" -> << "d", "a", "n", "g", "l", "i", "n", "g" >>
    [] s = "alpha.txt" -> << "a", "l", "p", "h", "a", ".", "t", "x", "t" >>
    [] OTHER -> << >>

\* a occurs in b as a run of consecutive elements.
IsInfix(a, b) ==
  \E i \in 0..(Len(b) - Len(a)) : SubSeq(b, i + 1, i + Len(a)) = a

\* Python's "q in s" on strings.
In(q, s) == IsInfix(Chars(q), Chars(s))

\* The values submitted in the search input.
SearchValues == {"", ".", "..", "D", "Me"}

\* Paths handed to _navigate_to from a key, a pin or the home shortcut: the
\* directories, a file, and a path that does not exist.
BrowseTargets == Dirs \cup {"/p1/file1.txt", "/gone"}

\* DataTable.move_cursor(row=r): the coordinate is clamped to the rows there
\* are.  (With the preview closed the FileHighlighted it causes is ignored.)
MoveCursorTo(r) ==
  IF rows = << >> THEN cursor
  ELSE IF r > Len(rows) - 1 THEN Len(rows) - 1 ELSE r

\* _on_search_submitted: the list "matches" for a non-empty lower-cased query.
Matches(q) ==
  LET has_parent == current_dir # Root
      offset == IF has_parent THEN 1 ELSE 0
      hits == SelectSeq([i \in 1..Len(entries) |-> i],
                        LAMBDA i : In(q, Lower(entries[i].name)))
  IN  (IF has_parent /\ In(q, "..") THEN << 0 >> ELSE << >>)
        \o [k \in 1..Len(hits) |-> hits[k] - 1 + offset]

\* A search index that starts at the first match whether there is one or not.
IndexAfterSubmit_Zero(matches) == 0

\* "if matches: self._search_index = 0 ... else: self._search_index = -1"
IndexAfterSubmit(matches) == IF matches # << >> THEN 0 ELSE -1

\* A step through the matches that stops at the ends.
Rotate_Stopping(index, step, n) ==
  IF index + step < 0 THEN 0
  ELSE IF index + step > n - 1 THEN n - 1 ELSE index + step

\* "(self._search_index + step) % len(self._search_matches)"
Rotate(index, step, n) == (index + step) % n

\* A test that lets a move to the current directory through.
MayNavigate_NoSameTest(path) == IsDir(path)

\* _navigate_to: "if path.is_dir() and path != self.current_dir"
MayNavigate(path) == IsDir(path) /\ path # current_dir

\* A push at the bottom of the stack.
Pushed_Bottom(stack, dir) == << dir >> \o stack

\* "self._dir_stack.append(self.current_dir)"
Pushed(stack, dir) == Append(stack, dir)

\* What the browsing handlers leave alone.
BrowseFrame ==
  /\ UNCHANGED << browser_mounted, path_map, entries, rows >>
  /\ UNCHANGED << appVars, panelVars, scanHistory, previewHistory, regVars >>
  /\ UNCHANGED << markers, dir_changed >>
  /\ UNCHANGED toolVars

\* No _load_directory() call.
NoRequest == UNCHANGED << load_gen, workers, nreq, lister >>

\* A _load_directory() call for the directory dir.  The exclusive group's
\* earlier worker is cancelled where it has not begun; a result it has
\* already handed to call_from_thread stays queued (worker slot 1) and is
\* applied or dropped by _populate_list's own test.
BrowseRequest(dir) ==
  /\ nreq < MaxRequests
  /\ nreq' = nreq + 1
  /\ lister' = [NoLister EXCEPT !.pc = "pending", !.scan = Scandir(dir)]
  /\ workers' =
       IF lister.pc = "handoff"
       THEN [workers EXCEPT ![1] =
               [NoWorker EXCEPT !.pc = "handoff", !.gen = lister.gen,
                                !.dir = current_dir, !.hidden = show_hidden,
                                !.cached = (sort_key \in {"size", "modified"}),
                                !.sort_key = sort_key]]
       ELSE workers
  /\ UNCHANGED load_gen

\* _navigate_to(path), whether or not it goes on past its test.
BrowseNavigateTo(path) ==
  /\ browse_arg' = path
  /\ IF MayNavigate(path)
     THEN /\ dir_stack' = Pushed(dir_stack, current_dir)
          /\ current_dir' = path
          /\ trail' = Append(trail, << "forward", path >>)
          /\ BrowseRequest(path)
     ELSE /\ UNCHANGED << dir_stack, current_dir, trail >>
          /\ NoRequest
  /\ UNCHANGED << cursor, show_hidden, sort_key, search_query, search_matches,
                  search_index >>
  /\ BrowseFrame

\* A key that calls _navigate_to: action_parent_dir, action_go_home, or
\* action_enter_or_open on a directory row.
KeyNavigateTo(path) ==
  /\ screen = "browser"
  /\ UNCHANGED screen
  /\ browse_op' = "navigate"
  /\ BrowseNavigateTo(path)

\* action_go_back
BrowseGoBack ==
  /\ screen = "browser"
  /\ browse_op' = "back"
  /\ browse_arg' = NoPath
  /\ IF dir_stack # << >>
     THEN /\ current_dir' = dir_stack[Len(dir_stack)]
          /\ dir_stack' = SubSeq(dir_stack, 1, Len(dir_stack) - 1)
          /\ trail' = Append(trail, << "back", dir_stack[Len(dir_stack)] >>)
          /\ BrowseRequest(dir_stack[Len(dir_stack)])
     ELSE /\ UNCHANGED << dir_stack, current_dir, trail >>
          /\ NoRequest
  /\ UNCHANGED << cursor, show_hidden, sort_key, search_query, search_matches,
                  search_index, screen >>
  /\ BrowseFrame

\* action_toggle_hidden
BrowseToggleHidden ==
  /\ screen = "browser"
  /\ browse_op' = "hidden"
  /\ browse_arg' = NoPath
  /\ show_hidden' = ~show_hidden
  /\ BrowseRequest(current_dir)
  /\ UNCHANGED << cursor, sort_key, current_dir, dir_stack, search_query,
                  search_matches, search_index, screen, trail >>
  /\ BrowseFrame

\* action_cycle_sort
BrowseCycleSort ==
  /\ screen = "browser"
  /\ browse_op' = "sort"
  /\ browse_arg' = NoPath
  /\ sort_key' = NextSortKey(sort_key)
  /\ BrowseRequest(current_dir)
  /\ UNCHANGED << cursor, show_hidden, current_dir, dir_stack, search_query,
                  search_matches, search_index, screen, trail >>
  /\ BrowseFrame

\* j / k / g / G: the cursor moves to row r.
BrowseMoveCursor(r) ==
  /\ screen = "browser"
  /\ r \in 0..(Len(rows) - 1) /\ r # cursor
  /\ browse_op' = "cursor"
  /\ browse_arg' = NoPath
  /\ cursor' = r
  /\ NoRequest
  /\ UNCHANGED << show_hidden, sort_key, current_dir, dir_stack, search_query,
                  search_matches, search_index, screen, trail >>
  /\ BrowseFrame

\* _on_search_submitted(event) with event.value = value
SearchSubmitted(value) ==
  /\ screen = "browser"
  /\ browse_op' = "submit"
  /\ browse_arg' = value
  /\ LET q == Lower(value)
     IN  IF q = ""
         THEN /\ search_query' = ""
              /\ search_matches' = << >>
              /\ search_index' = -1
              /\ UNCHANGED cursor
         ELSE /\ search_query' = q
              /\ search_matches' = Matches(q)
              /\ search_index' = IndexAfterSubmit(Matches(q))
              /\ cursor' = IF Matches(q) # << >>
                           THEN MoveCursorTo(Matches(q)[1]) ELSE cursor
  /\ NoRequest
  /\ UNCHANGED << show_hidden, sort_key, current_dir, dir_stack, screen,
                  trail >>
  /\ BrowseFrame

\* action_search_next (step = 1) and action_search_prev (step = -1)
SearchStep(op, step) ==
  /\ screen = "browser"
  /\ browse_op' = op
  /\ browse_arg' = NoPath
  /\ IF search_matches = << >>
     THEN UNCHANGED << search_index, cursor >>
     ELSE /\ search_index' = Rotate(search_index, step, Len(search_matches))
          /\ cursor' = MoveCursorTo(
               search_matches[Rotate(search_index, step,
                                     Len(search_matches)) + 1])
  /\ NoRequest
  /\ UNCHANGED << show_hidden, sort_key, current_dir, dir_stack, search_query,
                  search_matches, screen, trail >>
  /\ BrowseFrame

SearchNext == SearchStep("next", 1)

SearchPrev == SearchStep("prev", -1)

\* The directory the search specification starts in.
SearchDir == "/p1"

\* The browser mounted in SearchDir, its first scan requested.
InitSearch ==
  /\ show_hidden = FALSE
  /\ sort_key = "name"
  /\ ListStart(SearchDir, [NoLister EXCEPT !.pc = "pending",
                                           !.scan = Scandir(SearchDir)])

NextSearch ==
  \/ ListWorker
  \/ ListPopulate
  \/ PopulateList(1)
  \/ nreq < MaxSearchScans /\ KeyNavigateTo(Parent(current_dir))
  \/ nreq < MaxSearchScans /\ BrowseToggleHidden
  \/ nreq < MaxSearchScans /\ BrowseCycleSort
  \/ \E r \in 0..(Len(rows) - 1) : BrowseMoveCursor(r)
  \/ \E value \in SearchValues : SearchSubmitted(value)
  \/ SearchNext
  \/ SearchPrev

SpecSearch == InitSearch /\ [][NextSearch]_vars

\* ------------------------------------------------------ NcviewApp: popups

\* The paths of the pins file: directories, and paths that are none (any more).
Pins == BrowseTargets

\* action_show_pins: the popup is pushed unless the preview is full screen.
ShowPins ==
  /\ screen = "browser"
  /\ browse_op' = "show_pins"
  /\ browse_arg' = NoPath
  /\ screen' = IF PreviewIsOpen THEN screen ELSE "pins"
  /\ NoRequest
  /\ UNCHANGED << cursor, show_hidden, sort_key, current_dir, dir_stack,
                  search_query, search_matches, search_index, trail >>
  /\ BrowseFrame

\* PinsScreen.action_select_pin: dismiss(Path(pin_path)), then the callback
\* _on_pin_selected: browser._navigate_to(path).
PinSelected(path) ==
  /\ screen = "pins"
  /\ screen' = "browser"
  /\ browse_op' = "pin"
  /\ BrowseNavigateTo(path)

\* PinsScreen.action_cancel: dismiss(None); the callback does nothing.
PinCancelled ==
  /\ screen = "pins"
  /\ screen' = "browser"
  /\ browse_op' = "cancel"
  /\ browse_arg' = NoPath
  /\ NoRequest
  /\ UNCHANGED << cursor, show_hidden, sort_key, current_dir, dir_stack,
                  search_query, search_matches, search_index, trail >>
  /\ BrowseFrame

\* action_show_history: unless the preview is full screen, the import of
\* HistoryScreen runs; history_screen.py imports osc52_copy from
\* utils/clipboard.py, which defines no such name, so the import raises
\* ImportError inside the action and the popup is never pushed.
ShowHistory ==
  /\ screen = "browser"
  /\ browse_op' = "show_history"
  /\ browse_arg' = NoPath
  /\ screen' = IF PreviewIsOpen THEN screen ELSE "error"
  /\ NoRequest
  /\ UNCHANGED << cursor, show_hidden, sort_key, current_dir, dir_stack,
                  search_query, search_matches, search_index, trail >>
  /\ BrowseFrame

\* The browser mounted in the root, its first scan requested.
InitNav ==
  /\ show_hidden = FALSE
  /\ sort_key = "name"
  /\ ListStart(Root, [NoLister EXCEPT !.pc = "pending", !.scan = Scandir(Root)])

NextNav ==
  \/ ListWorker
  \/ ListPopulate
  \/ PopulateList(1)
  \/ \E path \in BrowseTargets : KeyNavigateTo(path)
  \/ BrowseGoBack
  \/ ShowPins
  \/ \E path \in Pins : PinSelected(path)
  \/ PinCancelled
  \/ ShowHistory

SpecNav == InitNav /\ [][NextNav]_vars

\* ---------------------------------------------- FileBrowser: file operations

\* Path.parent, Path.name, on components.
ParentOf(parts) ==
  IF parts = << >> THEN parts ELSE SubSeq(parts, 1, Len(parts) - 1)

NameOf(parts) == IF parts = << >> THEN "" ELSE parts[Len(parts)]

\* str.strip() of the values typed.
Strip(s) ==
  CASE s = " nd "             -> "nd"
    [] s = " /p1/nd/new.txt " -> "/p1/nd/new.txt"
    [] s = " "                -> ""
    [] OTHER                  -> s

\* The components of a relative name typed.
RelParts(name) ==
  CASE name = "nd/sub" -> << "nd", "sub" >>
    [] name = "a/b"    -> << "a", "b" >>
    [] OTHER           -> << name >>

\* '"/" in new_name or "\\" in new_name'
HasSeparator(name) == Len(RelParts(name)) > 1

\* A test for separators that finds none.
HasSeparator_Never(name) == FALSE

\* "dir / name", as components.
Joined(dir, name) == dir \o RelParts(name)

\* Path.exists(), Path.is_dir() on the disk d.
Exists(d, p) == p \in DOMAIN d

DiskIsDir(d, p) == p \in DOMAIN d /\ d[p] = "dir"

\* What lies below p on the disk d.
Under(d, p) ==
  { q \in DOMAIN d : Len(q) > Len(p) /\ SubSeq(q, 1, Len(p)) = p }

\* The disk d with p created as kind, and with the paths in gone removed.
With(d, p, kind) == [q \in DOMAIN d \cup {p} |-> IF q = p THEN kind ELSE d[q]]

Without(d, gone) == [q \in DOMAIN d \ gone |-> d[q]]

\* Where m, at or below old, lies once old is called new.
Moved(m, old, new) == new \o SubSeq(m, Len(old) + 1, Len(m))

\* os.rename(old, new) done.
Renamed(d, old, new) ==
  LET moving == {old} \cup Under(d, old)
  IN  [q \in (DOMAIN d \ moving) \cup { Moved(m, old, new) : m \in moving } |->
         IF \E m \in moving : Moved(m, old, new) = q
         THEN d[CHOOSE m \in moving : Moved(m, old, new) = q]
         ELSE d[q]]

\* What shutil.rmtree(p) may have removed when it raises: some of what lies
\* below p, a directory only with all that lies below it.
RmtreeLeavings(d, p) ==
  { gone \in SUBSET Under(d, p) : \A q \in gone : Under(d, q) \subseteq gone }

\* The names a file operation can give an entry of the directory shown, in
\* the order os.scandir yields the entries made under them.
MadeNames == << "new.txt", "nd", "file2.csv" >>

\* What os.scandir(dir) yields on the disk d: the entries the application was
\* started on that are still there, then the ones made since.
DiskScan(d, dir) ==
  LET here(name) == Joined(PathParts(dir), name)
      kept == SelectSeq(Scandir(dir),
                        LAMBDA e : /\ here(e.name) \in DOMAIN d
                                   /\ d[here(e.name)] = e.kind)
      made == SelectSeq(MadeNames,
                        LAMBDA n : /\ here(n) \in DOMAIN d
                                   /\ \A i \in 1..Len(kept) : kept[i].name # n)
  IN  kept \o [i \in 1..Len(made) |->
                 Entry(dir, made[i], d[here(made[i])], TRUE, 0, 99)]

\* A _load_directory() call made once the disk is d.
OpsRequest(d) ==
  /\ nreq < MaxRequests
  /\ nreq' = nreq + 1
  /\ lister' = [NoLister EXCEPT !.pc = "pending", !.scan = DiskScan(d, current_dir)]
  /\ workers' =
       IF lister.pc = "handoff"
       THEN [workers EXCEPT ![1] =
               [NoWorker EXCEPT !.pc = "handoff", !.gen = lister.gen,
                                !.dir = current_dir, !.hidden = show_hidden,
                                !.cached = (sort_key \in {"size", "modified"}),
                                !.sort_key = sort_key]]
       ELSE workers
  /\ UNCHANGED load_gen

\* What the file operations leave alone.
OpsFrame ==
  /\ UNCHANGED << browser_mounted, current_dir, entries, rows, path_map,
                  cursor, show_hidden, sort_key, dir_stack, search_query,
                  search_matches, search_index >>
  /\ UNCHANGED << appVars, panelVars, scanHistory, previewHistory, regVars >>
  /\ UNCHANGED << markers, dir_changed, trail >>
  /\ UNCHANGED << history_file, pb_path, pb_text, fetch, stale, bar_op >>
  /\ UNCHANGED << pins_file, pin_op, pin_arg, pin_ret >>

\* One more file operation submitted.
Submitted ==
  /\ file_ops < MaxFileOps
  /\ file_ops' = file_ops + 1

\* A handler that returns or fails with the disk as it found it.
Ends(result) ==
  /\ op_result' = result
  /\ disk' = disk
  /\ NoRequest

\* A handler that fails after it has brought the disk to d.
FailsWith(d) ==
  /\ op_result' = "failed"
  /\ disk' = d
  /\ NoRequest

\* A handler that has brought the disk to d, and calls _load_directory().
Succeeds(d) ==
  /\ op_result' = "ok"
  /\ disk' = d
  /\ OpsRequest(d)

\* No text field is open and no screen lies over the browser: its key
\* bindings are live.
KeysLive == screen = "browser" /\ rename_path = NoPath

\* The values typed into the touch, mkdir and rename fields.
TouchValues == {"", "/p1/file1.txt", "/p1/new.txt", " /p1/nd/new.txt "}

MkdirValues == {" ", "dir1", "nd", "nd/sub"}

RenameValues == {"", "a/b", "file2.csv", " nd "}

\* _on_touch_submitted; mk_ok and touch_ok: whether the operating system lets
\* parent.mkdir and touch through.
TouchSubmitted(value, mk_ok, touch_ok) ==
  LET file_path == Strip(value)
      path == PathParts(file_path)
      parent == ParentOf(path)
      made == IF Exists(disk, parent) THEN disk ELSE With(disk, parent, "dir")
  IN  /\ KeysLive
      /\ Submitted
      /\ browse_op' = "touch"
      /\ browse_arg' = value
      /\ IF file_path = "" THEN Ends("empty")
         ELSE IF Exists(disk, path) THEN Ends("rejected")
         ELSE IF (Exists(disk, parent) /\ ~DiskIsDir(disk, parent)) \/ ~mk_ok
              THEN Ends("failed")
         ELSE IF ~touch_ok THEN FailsWith(made)
         ELSE Succeeds(With(made, path, "file"))
      /\ UNCHANGED << screen, rename_path, confirm >>
      /\ OpsFrame

\* _on_mkdir_submitted; up_ok and mk_ok: whether the operating system lets
\* the mkdir of a missing parent and of the directory itself through.
MkdirSubmitted(value, up_ok, mk_ok) ==
  LET dir_name == Strip(value)
      new_path == Joined(PathParts(current_dir), dir_name)
      parent == ParentOf(new_path)
      made == IF Exists(disk, parent) THEN disk ELSE With(disk, parent, "dir")
  IN  /\ KeysLive
      /\ Submitted
      /\ browse_op' = "mkdir"
      /\ browse_arg' = value
      /\ IF dir_name = "" THEN Ends("empty")
         ELSE IF Exists(disk, new_path) THEN Ends("rejected")
         ELSE IF (Exists(disk, parent) /\ ~DiskIsDir(disk, parent))
                   \/ (~Exists(disk, parent) /\ ~up_ok)
              THEN Ends("failed")
         ELSE IF ~mk_ok THEN FailsWith(made)
         ELSE Succeeds(With(made, new_path, "dir"))
      /\ UNCHANGED << screen, rename_path, confirm >>
      /\ OpsFrame

\* A row test that takes no row for the parent row.
OnParentRow_Never == FALSE

\* 'row_key == ".."' of the row under the cursor
OnParentRow == rows[cursor + 1] = ".."

\* action_rename
ActionRename ==
  /\ KeysLive
  /\ browse_op' = "rename_open"
  /\ browse_arg' = HighlightedPath
  /\ rename_path' = IF HighlightedPath = NoPath \/ OnParentRow THEN NoPath
                    ELSE HighlightedPath
  /\ op_result' = IF HighlightedPath = NoPath \/ OnParentRow THEN "ignored"
                  ELSE "opened"
  /\ UNCHANGED << screen, confirm, disk, file_ops >>
  /\ NoRequest
  /\ OpsFrame

\* on_key: Escape in the rename field (_finish_input).
RenameEscaped ==
  /\ screen = "browser"
  /\ rename_path # NoPath
  /\ browse_op' = "escape"
  /\ browse_arg' = NoPath
  /\ rename_path' = NoPath
  /\ op_result' = "cancelled"
  /\ UNCHANGED << screen, confirm, disk, file_ops >>
  /\ NoRequest
  /\ OpsFrame

\* _on_rename_submitted; os_ok: whether the operating system lets the rename
\* through.
RenameSubmitted(value, os_ok) ==
  LET new_name == Strip(value)
      old_path == PathParts(rename_path)
      new_path == Joined(ParentOf(old_path), new_name)
  IN  /\ screen = "browser"
      /\ rename_path # NoPath
      /\ Submitted
      /\ browse_op' = "rename"
      /\ browse_arg' = rename_path
      /\ rename_path' = NoPath
      /\ IF new_name = "" THEN Ends("empty")
         ELSE IF HasSeparator(new_name) THEN Ends("rejected")
         ELSE IF Exists(disk, new_path) THEN Ends("rejected")
         ELSE IF ~Exists(disk, old_path) \/ ~os_ok THEN Ends("failed")
         ELSE Succeeds(Renamed(disk, old_path, new_path))
      /\ UNCHANGED << screen, confirm >>
      /\ OpsFrame

\* action_delete, up to push_screen(ConfirmScreen(...), callback=_on_result)
ActionDelete ==
  /\ KeysLive
  /\ browse_op' = "delete_open"
  /\ browse_arg' = HighlightedPath
  /\ IF HighlightedPath = NoPath \/ OnParentRow
     THEN /\ op_result' = "ignored"
          /\ UNCHANGED << screen, confirm >>
     ELSE /\ op_result' = "opened"
          /\ screen' = "confirm"
          /\ confirm' = HighlightedPath
  /\ UNCHANGED << rename_path, disk, file_ops >>
  /\ NoRequest
  /\ OpsFrame

\* ConfirmScreen.action_confirm / action_cancel and action_delete's
\* _on_result(confirmed); os_ok: whether rmtree or unlink ends without
\* OSError, gone: what rmtree had removed if it does not.
ConfirmDismissed(confirmed, os_ok, gone) ==
  LET path == PathParts(confirm)
  IN  /\ screen = "confirm"
      /\ screen' = "browser"
      /\ confirm' = NoPath
      /\ Submitted
      /\ browse_op' = IF confirmed THEN "confirm" ELSE "cancel"
      /\ browse_arg' = confirm
      /\ IF ~confirmed THEN Ends("cancelled")
         ELSE IF DiskIsDir(disk, path)
              THEN IF os_ok
                   THEN /\ gone = {}
                        /\ Succeeds(Without(disk, {path} \cup Under(disk, path)))
                   ELSE /\ gone \in RmtreeLeavings(disk, path)
                        /\ FailsWith(Without(disk, gone))
         ELSE /\ gone = {}
              /\ IF Exists(disk, path) /\ os_ok
                 THEN Succeeds(Without(disk, {path}))
                 ELSE Ends("failed")
      /\ UNCHANGED rename_path
      /\ OpsFrame

\* The directory the file operations are made in.
OpsDir == "/p1"

InitOps ==
  /\ show_hidden = FALSE
  /\ sort_key = "name"
  /\ ListStart(OpsDir, [NoLister EXCEPT !.pc = "pending",
                                        !.scan = Scandir(OpsDir)])

NextOps ==
  \/ ListWorker
  \/ ListPopulate
  \/ PopulateList(1)
  \/ \E r \in 0..(Len(rows) - 1) : KeysLive /\ BrowseMoveCursor(r)
  \/ \E value \in TouchValues, mk_ok, touch_ok \in BOOLEAN :
       TouchSubmitted(value, mk_ok, touch_ok)
  \/ \E value \in MkdirValues, up_ok, mk_ok \in BOOLEAN :
       MkdirSubmitted(value, up_ok, mk_ok)
  \/ ActionRename
  \/ RenameEscaped
  \/ \E value \in RenameValues, os_ok \in BOOLEAN : RenameSubmitted(value, os_ok)
  \/ ActionDelete
  \/ \E confirmed, os_ok \in BOOLEAN :
       \E gone \in SUBSET Under(disk, PathParts(confirm)) :
         ConfirmDismissed(confirmed, os_ok, gone)

SpecOps == InitOps /\ [][NextOps]_vars

\* ------------------------------------------- NcviewApp: directory changes

\* The directories a DirectoryChanged message names.
ChangedDirs == {"/", "/p1", "/p2", "/p1/dir1", "/home", "/link"}

\* Path.resolve(): "/link" is a symbolic link to "/p2".
Resolve(path) == IF path = "/link" THEN "/p2" ELSE path

\* A history that keeps the earlier copy of the path added.
WithoutPath_Keep(history, added) == history

\* "[p for p in history if p != resolved]"
WithoutPath(history, added) == SelectSeq(history, LAMBDA p : p # added)

\* "history[:MAX_HISTORY]"
Truncated(history) ==
  IF Len(history) > MaxHistory THEN SubSeq(history, 1, MaxHistory) ELSE history

\* add_to_history(path): the list written to history.json.
AddToHistory(history, path) ==
  Truncated(<< Resolve(path) >> \o WithoutPath(history, Resolve(path)))

\* _git_info(directory): the branch git reports there.
GitBranch(path) ==
  CASE path \in {"/p1", "/p1/dir1"} -> "main"
    [] path = "/p2"                 -> "dev"
    [] OTHER                        -> NoBranch

\* What the directory change handlers leave alone.
BarFrame ==
  /\ UNCHANGED << browserVars, appVars, panelVars, scanHistory, previewHistory,
                  listVars, regVars, navVars >>
  /\ UNCHANGED << disk, rename_path, confirm, op_result, file_ops >>
  /\ UNCHANGED << pins_file, pin_op, pin_arg, pin_ret >>

\* PathBar.update_path(path).  exclusive=True cancels the worker started
\* before; a thread worker that is cancelled runs on to its end, and the one
\* cancelled last is followed.
UpdatePath(path) ==
  /\ pb_path' = Resolve(path)
  /\ pb_text' = [path |-> Resolve(path), branch |-> NoBranch]
  /\ fetch' = [pc |-> "git", path |-> Resolve(path)]
  /\ stale' = IF fetch.pc # "none" THEN fetch ELSE stale

\* NcviewApp._on_directory_changed
OnDirectoryChanged(path) ==
  /\ UpdatePath(path)
  /\ history_file' = AddToHistory(history_file, path)
  /\ bar_op' = "changed"
  /\ BarFrame

\* _fetch_git_info in the worker w, to its test "path == self._path" and, where
\* that holds, the rendering of the text it hands over.
FetchTest(w) ==
  /\ w.pc = "git"
  /\ bar_op' = "test"
  /\ UNCHANGED << pb_path, pb_text, history_file >>

FetchTestLast ==
  /\ FetchTest(fetch)
  /\ fetch' = IF fetch.path = pb_path THEN [fetch EXCEPT !.pc = "handoff"]
              ELSE NoFetch
  /\ UNCHANGED stale
  /\ BarFrame

FetchTestCancelled ==
  /\ FetchTest(stale)
  /\ stale' = IF stale.path = pb_path THEN [stale EXCEPT !.pc = "handoff"]
              ELSE NoFetch
  /\ UNCHANGED fetch
  /\ BarFrame

\* _set_text(text), called through call_from_thread by the worker w.
SetText(w) ==
  /\ w.pc = "handoff"
  /\ pb_text' = [path |-> w.path, branch |-> GitBranch(w.path)]
  /\ bar_op' = "set_text"
  /\ UNCHANGED << pb_path, history_file >>

SetTextLast ==
  /\ SetText(fetch)
  /\ fetch' = NoFetch
  /\ UNCHANGED stale
  /\ BarFrame

SetTextCancelled ==
  /\ SetText(stale)
  /\ stale' = NoFetch
  /\ UNCHANGED fetch
  /\ BarFrame

\* The browser of the application mounted on StartPath, nothing done yet.
BrowserAtStart ==
  /\ show_hidden = FALSE
  /\ sort_key = "name"
  /\ disk = StartDisk
  /\ rename_path = NoPath
  /\ confirm = NoPath
  /\ op_result = "none"
  /\ file_ops = 0
  /\ browser_mounted = TRUE
  /\ current_dir = StartPath
  /\ load_gen = 0
  /\ entries = << >>
  /\ rows = << >>
  /\ path_map = [k \in {} |-> NoPath]
  /\ cursor = -1
  /\ dir_stack = << >>
  /\ search_query = ""
  /\ search_matches = << >>
  /\ search_index = -1
  /\ workers = [w \in 1..MaxScans |-> NoWorker]
  /\ nreq = 1
  /\ shown_dir = NoPath
  /\ applied_gen = 0
  /\ PreviewInit
  /\ ListIdle
  /\ RegistryIdle
  /\ BrowseIdle(current_dir)

\* PathBar.on_mount has called update_path(self._path), and no
\* DirectoryChanged has arrived yet.
InitBar ==
  /\ BrowserAtStart
  /\ PinsIdle
  /\ pb_path = Resolve(StartPath)
  /\ pb_text = [path |-> Resolve(StartPath), branch |-> NoBranch]
  /\ fetch = [pc |-> "git", path |-> Resolve(StartPath)]
  /\ stale = NoFetch
  /\ history_file = << >>
  /\ bar_op = "none"

NextBar ==
  \/ \E path \in ChangedDirs : OnDirectoryChanged(path)
  \/ FetchTestLast
  \/ FetchTestCancelled
  \/ SetTextLast
  \/ SetTextCancelled

SpecBar == InitBar /\ [][NextBar]_vars

\* ------------------------------------------------------------------ pins

\* The paths pinned and unpinned, and the names given.
PinPaths == {"/", "/p1", "/p2", "/link"}

PinNames == {"", "work", "tmp"}

\* Pin(path=..., name=...)
Pin(path, name) == [path |-> path, name |-> name]

\* The position of the first pin whose path is the one given, 0 without one.
PinIndex(pins, path) ==
  IF \E i \in 1..Len(pins) : pins[i].path = path
  THEN CHOOSE i \in 1..Len(pins) :
         /\ pins[i].path = path
         /\ \A j \in 1..(i - 1) : pins[j].path # path
  ELSE 0

\* A search that compares the path as it was typed.
PinTarget_Unresolved(path) == path

\* "resolved = str(Path(path).resolve())"
PinTarget(path) == Resolve(path)

\* What the pins calls leave alone.
PinsFrame ==
  /\ UNCHANGED << browserVars, appVars, panelVars, scanHistory, previewHistory,
                  listVars, regVars, navVars >>
  /\ UNCHANGED << disk, rename_path, confirm, op_result, file_ops >>
  /\ UNCHANGED << history_file, pb_path, pb_text, fetch, stale, bar_op >>

\* add_pin(path, name)
AddPin(path, name) ==
  LET at == PinIndex(pins_file, PinTarget(path))
  IN  /\ pin_op' = "add"
      /\ pin_arg' = Resolve(path)
      /\ IF at > 0
         THEN /\ pins_file' = [pins_file EXCEPT ![at] = Pin(Resolve(path), name)]
              /\ pin_ret' = TRUE
         ELSE /\ pins_file' = Append(pins_file, Pin(Resolve(path), name))
              /\ pin_ret' = FALSE
      /\ PinsFrame

\* remove_pin(path)
RemovePin(path) ==
  /\ pin_op' = "remove"
  /\ pin_arg' = Resolve(path)
  /\ pins_file' = SelectSeq(pins_file, LAMBDA p : p.path # Resolve(path))
  /\ UNCHANGED pin_ret
  /\ PinsFrame

\* No pins.json yet.
InitPins ==
  /\ BrowserAtStart
  /\ BarIdle
  /\ PinsIdle

NextPins ==
  \/ \E path \in PinPaths, name \in PinNames : AddPin(path, name)
  \/ \E path \in PinPaths : RemovePin(path)

SpecPins == InitPins /\ [][NextPins]_vars

\* --------------------------------------------- properties: directory scans

\* The worker has executed "gen = self._load_gen".
Captured(w) ==
  workers[w].pc \in {"scandir", "filter", "stat", "sort", "git", "check",
                     "handoff", "applied", "dropped"}

\* This step is _populate_list applying worker w's result to the display.
Applies(w) == workers[w].pc = "handoff" /\ workers'[w].pc = "applied"

\* This step is executed by worker w's thread (not by the interactive thread).
ThreadStep(w) ==
  /\ workers[w].pc \in {"pending", "store", "capture", "scandir", "filter",
                        "stat", "sort", "git", "check"}
  /\ workers'[w].pc \notin {workers[w].pc, "cancelled"}

\* C1: once a generation g2 has been captured, no result with a captured
\* generation g1 < g2 is applied to the displayed listing.
C1_StaleResultNeverApplied ==
  [][\A w \in 1..MaxScans :
       Applies(w) =>
         ~ \E w2 \in 1..MaxScans :
             Captured(w2) /\ workers[w2].gen > workers[w].gen]_vars

\* C2: whenever a listing is applied to the display, it was listed from the
\* directory that is the browser's current directory at that moment.
C2_AppliedListingIsOfCurrentDir ==
  [][\A w \in 1..MaxScans : Applies(w) => shown_dir' = current_dir']_vars

\* C3: captured generations are distinct and increase with the request order.
C3_GenerationsStrictlyIncreasing ==
  \A w1, w2 \in 1..MaxScans :
    (w1 < w2 /\ Captured(w1) /\ Captured(w2)) =>
      workers[w1].gen < workers[w2].gen

\* C4: a step of a scan worker's thread writes none of the generation counter,
\* the entry list, the path map, the search state and the current directory.
C4_WorkersNeverWriteViewState ==
  [][(\E w \in 1..MaxScans : ThreadStep(w)) =>
       UNCHANGED << load_gen, entries, path_map, search_query, search_matches,
                    search_index, current_dir >>]_vars

\* Worker w has run _get_git_status().
Probed(w) == workers[w].pc \in {"check", "handoff"}

\* C13: a scan's listing is applied before that scan's VCS probe is fetched:
\* at the step that applies worker w's listing, w has not yet run the probe.
C13_ListingAppliedBeforeProbe ==
  [][\A w \in 1..MaxScans : Applies(w) => ~Probed(w)]_vars

\* Every scan requested has run to its end: no worker is waiting, running or
\* holding a result for _populate_list.
ScansDone ==
  /\ browser_mounted
  /\ \A w \in 1..MaxScans :
       workers[w].pc \in {"none", "cancelled", "applied", "dropped"}

\* C34: once every scan worker has finished, the result of the request made
\* last is the one applied, and the displayed listing is the listing of the
\* current directory under the current hidden flag and sort mode.
C34_LastRequestIsShownInTheEnd ==
  ScansDone =>
    /\ workers[nreq].pc = "applied"
    /\ shown_dir = current_dir
    /\ entries = Listing(current_dir, show_hidden,
                         sort_key \in {"size", "modified"}, sort_key)
    /\ rows = RowKeys(current_dir, entries)

\* ------------------------------------------------ properties: preview modes

\* The spec's activePath: the path the preview panel records as shown.
ActivePath == current_path

\* The debounce workers that are sleeping or inside show_file.
LiveDebounce == { d \in 1..MaxDebounce : deb[d].pc # "none" }

\* Worker d is inside show_file (a content load in flight).
Loading(d) == deb[d].pc \in {"rm", "mount"}

\* This step is worker d's timer elapsing into a content load.
StartsLoad(d) == deb[d].pc = "sleep" /\ deb'[d].pc \in {"rm", "mount"}

\* No handler and no content load is suspended at an await.
Quiescent == app_pc = "idle" /\ \A d \in 1..MaxDebounce : ~Loading(d)

\* C5: at most one debounced load is pending or in flight; a pending one is
\* for the last highlighted file, and a load in flight is the load its own
\* timer was started for (highlights A, B, C in succession give one load, C's).
C5_DebounceCoalesces ==
  /\ Cardinality(LiveDebounce) <= 1
  /\ \A d \in 1..MaxDebounce :
       /\ (deb[d].pc = "sleep") => (deb[d].sched = split_pending_path)
       /\ Loading(d) => (deb[d].path = deb[d].sched)

\* Three files were highlighted within one delay and one load is in flight.
C5_Witness_ThreeHighlightsOneLoad ==
  \E d \in 1..MaxDebounce :
    /\ Loading(d)
    /\ Cardinality(deb[d].burst) = 3
    /\ deb[d].path \in deb[d].burst
    /\ LiveDebounce = {d}

\* What C6 asks of worker d in a step.
TimerObeysMode(d) ==
  /\ StartsLoad(d) => (Mode = "Split")
  /\ (Mode # "Split" /\ deb[d].pc = "sleep" /\ deb'[d].pc # "sleep") =>
       (deb'[d].pc = "none" /\ UNCHANGED panelVars)

\* C6: a timer's load starts only in Split mode; a timer that ends outside
\* Split mode loads nothing and leaves the panel alone; a highlight outside
\* Split mode schedules nothing.
C6_LoadOnlyInSplit ==
  [][/\ \A d \in 1..MaxDebounce : TimerObeysMode(d)
     /\ (cursor' # cursor /\ Mode # "Split") =>
          UNCHANGED << deb, split_pending_path >>]_vars

\* A timer elapsed while the full-screen preview was open and loaded nothing.
C6_Witness_TimerSkippedInFullScreen ==
  /\ last_op = "skip"
  /\ Mode = "FullScreen"
  /\ full_from_split

\* C7: with nothing suspended, the Closed mode has no active path and no
\* mounted viewer (FullScreen and Split exclude each other by Mode).
C7_ClosedHasNoViewer ==
  /\ ~(Mode = "FullScreen" /\ Mode = "Split")
  /\ (Quiescent /\ Mode = "Closed") =>
       (ActivePath = NoPath /\ mounted = {} /\ current_viewer = NoViewer)

\* C8: _on_file_selected begun outside FullScreen ends in FullScreen with the
\* selected path active; selecting a path that is not a regular file changes
\* neither the mode nor the active path.
C8_SelectEntersFullScreen ==
  [][/\ (app_pc \in {"sel_rm", "sel_mount"} /\ app_pc' = "idle" /\ ~visible) =>
         (Mode' = "FullScreen" /\ ActivePath' = app_arg /\ preview_path' = app_arg)
     /\ (last_op' = "select" /\ ~IsFile(HighlightedPath)) =>
          UNCHANGED << split_view, visible, current_path, preview_path,
                       current_viewer, mounted >>]_vars

\* Full screen was entered from Split by selecting the highlighted file.
C8_Witness_FullScreenFromSplit ==
  /\ Mode = "FullScreen"
  /\ full_from_split
  /\ app_pc = "idle"
  /\ preview_path = HighlightedPath
  /\ ActivePath = preview_path

\* This step is _close_preview leaving the full-screen preview.
CloseStep == visible /\ ~visible'

\* What _close_preview's first step brings about.
CloseEffect ==
  /\ split_view' = split_view
  /\ (Mode' = "Split") <=> full_from_split
  /\ (Mode' = "Closed") <=> ~full_from_split
  /\ preview_path' = NoPath
  /\ (Mode' = "Split" /\ IsFile(HighlightedPath)) =>
       (/\ split_pending_path' = HighlightedPath
        /\ \E d \in 1..MaxDebounce :
             deb'[d].pc = "sleep" /\ deb'[d].sched = HighlightedPath)
  /\ (Mode' = "Closed" /\ app_pc' = "idle") => (ActivePath' = NoPath)

\* C9: closing the full-screen preview returns to Split exactly when split was
\* on when full screen was entered, else to Closed with the active path
\* cleared once the handler ends; entering and leaving full screen keep the
\* split flag; on return to Split a load is scheduled for a highlighted file.
C9_CloseFullRestoresMode ==
  [][/\ CloseStep => CloseEffect
     /\ (app_pc = "close_clr" /\ app_pc' = "idle") =>
          (Mode' = "Closed" /\ ActivePath' = NoPath)
     /\ (visible' # visible) => (split_view' = split_view)]_vars

\* The full-screen preview was just closed back to Split on a file row.
C9_Witness_ClosedBackToSplit ==
  /\ last_op = "close"
  /\ Mode = "Split"
  /\ full_from_split
  /\ IsFile(HighlightedPath)
  /\ split_pending_path = HighlightedPath

\* C10: action_toggle_split with the full-screen preview open changes nothing
\* of the split flag, the mode, the panel, the pending path and the debounce
\* workers; from Closed or Split it flips to the other of the two.
C10_ToggleIgnoredInFullScreen ==
  [][/\ (last_op' = "toggle" /\ visible) =>
         UNCHANGED << split_view, visible, current_viewer, current_path,
                      mounted, split_pending_path, deb, preview_path >>
     /\ (last_op' = "toggle" /\ ~visible) =>
          (/\ split_view' = ~split_view
           /\ Mode' = IF Mode = "Closed" THEN "Split" ELSE "Closed")]_vars

\* The key P was handled while the full-screen preview was open.
C10_Witness_ToggleInFullScreen ==
  /\ last_op = "toggle"
  /\ Mode = "FullScreen"
  /\ split_view = full_from_split

\* C36: the panel never has more than one viewer mounted, and a mounted viewer
\* is the one the panel records as current, also while show_file calls overlap
\* at their awaits.
C36_OnlyTheCurrentViewerIsMounted ==
  /\ Cardinality(mounted) <= 1
  /\ mounted \subseteq {current_viewer}

\* C37: a debounced load that starts loads the entry highlighted at that
\* moment; with the cursor moved from a file onto a directory before the delay
\* elapsed, the file highlighted before is not loaded.
C37_DebouncedLoadIsOfTheHighlightedEntry ==
  [][\A d \in 1..MaxDebounce :
       StartsLoad(d) => (deb'[d].path = HighlightedPath)]_vars

\* -------------------------------------------------- properties: load errors

\* This step is a viewer's content load ending.
LoadStep ==
  \E i \in 1..MaxViewers : content[i] = "loading" /\ content'[i] \notin {"loading", "none"}

\* C11: a content load that ends, in success or in failure, changes neither the
\* mode nor anything else of the preview, and leaves the viewer showing content
\* or an inline message; Select ends in FullScreen whatever the viewers show.
C11_LoadFailureStaysInline ==
  [][/\ LoadStep =>
          /\ UNCHANGED << split_view, visible, preview_path, split_pending_path,
                          app_pc, app_arg, deb, current_viewer, current_path,
                          mounted >>
          /\ \A i \in 1..MaxViewers : content'[i] \in Contents
     /\ (app_pc \in {"sel_rm", "sel_mount"} /\ app_pc' = "idle") =>
          (Mode' = "FullScreen")]_vars

\* The full-screen preview shows the inline error of a failed load.
C11_Witness_ErrorShownFullScreen ==
  /\ Mode = "FullScreen"
  /\ last_op = "load"
  /\ current_viewer \in mounted
  /\ content[current_viewer.id] = "error"

\* ----------------------------------------------------- properties: listings

\* The followed scan's listing is on display.
Shown == lister.pc = "done"

\* The parent row, where there is one.
ParentRow == IF current_dir # Root THEN << ".." >> ELSE << >>

DirsOf(es) == SelectSeq(es, LAMBDA e : e.kind = "dir")

FilesOf(es) == SelectSeq(es, LAMBDA e : e.kind # "dir")

Names(es) == [i \in 1..Len(es) |-> es[i].name]

\* sq is in ascending order of K.
Ascending(sq, K(_)) == \A i \in 1..(Len(sq) - 1) : K(sq[i]) <= K(sq[i + 1])

\* C12: a failed directory read is applied as an empty listing (the parent
\* row alone when not at the root), DirectoryChanged is posted, no marker or
\* error is shown, and going to the parent afterwards works and shows the
\* parent's listing.
C12_ReadFailureGivesEmptyListing ==
  /\ (Shown /\ ~lister.ok) =>
       /\ entries = << >>
       /\ rows = ParentRow
       /\ markers = NoStatus
       /\ dir_changed = current_dir
       /\ (current_dir # Root) => ENABLED ListParentDir
  /\ (Shown /\ dir_stack # << >>) =>
       /\ rows = RowKeys(current_dir,
                         Listing(current_dir, show_hidden,
                                 sort_key \in {"size", "modified"}, sort_key))
       /\ dir_changed = current_dir

\* An unreadable directory that holds entries is shown as the parent row alone.
C12_Witness_UnreadableDirShown ==
  /\ Shown
  /\ ~lister.ok
  /\ lister.scan # << >>
  /\ rows = << ".." >>
  /\ dir_changed = current_dir

\* C16: in the applied listing no file comes before a directory, under every
\* sort mode and hidden setting.
C16_DirectoriesFirst ==
  Shown =>
    /\ entries = DirsOf(entries) \o FilesOf(entries)
    /\ \A i, j \in 1..Len(entries) :
         (entries[i].kind # "dir" /\ entries[j].kind = "dir") => j < i
    /\ rows = ParentRow \o Names(entries)

\* Under a sort by size a directory is shown before a file that the scan
\* yielded first and that is smaller.
C16_Witness_DirBeforeSmallerFile ==
  /\ Shown
  /\ sort_key = "size"
  /\ Len(entries) >= 2
  /\ entries[1].kind = "dir" /\ entries[Len(entries)].kind # "dir"
  /\ lister.scan[1].kind # "dir"
  /\ entries[1].size > entries[Len(entries)].size

\* The key of the name order.
NameKey(e) == NameRank(Lower(e.name))

\* C17: under Name sort with hidden off the rows are the parent row (unless
\* at the root), then the directories, then the files, each by lower-cased
\* name, with no name that starts with a dot; the entries are exactly the
\* yielded ones that do not start with a dot.  (The spec's example too.)
C17_NameOrderHiddenOff ==
  /\ (Shown /\ sort_key = "name" /\ ~show_hidden) =>
       /\ rows = ParentRow \o Names(DirsOf(entries)) \o Names(FilesOf(entries))
       /\ Ascending(DirsOf(entries), NameKey)
       /\ Ascending(FilesOf(entries), NameKey)
       /\ { entries[i] : i \in 1..Len(entries) } =
            { e \in { lister.scan[i] : i \in 1..Len(lister.scan) } :
                lister.ok /\ ~StartsWithDot(e.name) }
       /\ Len(entries) = Cardinality({ entries[i] : i \in 1..Len(entries) })
  /\ RowKeys("/p1", Listing("/p1", FALSE, FALSE, "name")) =
       << "..", "dir1", "file1.txt", "file2.csv" >>

\* A hidden entry was yielded and left out, and a capitalised name is shown
\* after a lower-case one.
C17_Witness_HiddenOmittedCaseFolded ==
  /\ Shown /\ sort_key = "name" /\ ~show_hidden
  /\ \E i \in 1..Len(lister.scan) : lister.scan[i].name = ".hid"
  /\ rows = << "..", "alpha.txt", "Zed.txt" >>

\* The byte count the size order goes by.
SizeKey(e) == IF e.st THEN e.size ELSE 0

\* The entry with its size determined as 0 where it could not be determined.
AsSizeZero(e) == IF e.st THEN e ELSE [e EXCEPT !.st = TRUE, !.size = 0]

\* C18: under Size sort each partition is in ascending order of byte count,
\* and the listing is the one obtained if every entry without a size had the
\* size 0.
C18_SizeOrderUnknownAsZero ==
  (Shown /\ sort_key = "size") =>
    /\ Ascending(DirsOf(entries), SizeKey)
    /\ Ascending(FilesOf(entries), SizeKey)
    /\ [i \in 1..Len(entries) |-> AsSizeZero(entries[i])] =
         ListingOf([i \in 1..Len(Yielded(lister.ok, lister.scan)) |->
                      AsSizeZero(Yielded(lister.ok, lister.scan)[i])],
                   show_hidden, TRUE, "size")

\* A file without a size is shown before a file that has a positive size and
\* that the scan yielded first.
C18_Witness_UnknownSizeFirst ==
  /\ Shown /\ sort_key = "size"
  /\ Len(entries) = 2 /\ Len(lister.scan) = 2
  /\ ~entries[1].st /\ entries[2].st
  /\ entries[2].size > 0
  /\ lister.scan[1] = entries[2]

\* es[i]'s modification time is known.
Known(e) == e.st

\* C19: under ModifiedTime sort each partition has the entries with a known
\* time first, most recent first, and every entry without one after them.
C19_ModifiedOrderUnknownLast ==
  (Shown /\ sort_key = "modified") =>
    \A i, j \in 1..Len(entries) :
      (i < j /\ (entries[i].kind = "dir") = (entries[j].kind = "dir")) =>
        /\ Known(entries[j]) => Known(entries[i])
        /\ (Known(entries[i]) /\ Known(entries[j])) =>
             entries[i].mtime >= entries[j].mtime

\* ------------------------------------------------- properties: VCS markers

\* The probe of the followed scan has returned.
ProbeReturned == lister.pc \in {"handoff", "done"}

\* The probe ended in one of its failure modes.
ProbeFailed == lister.git.outcome # "ok"

\* C14: a probe that ends with the tool absent, a non-zero exit (not a
\* repository included), a timeout or an OS error returns the empty marker
\* map, whatever it had read, and the scan applies the same listing and rows
\* as without markers and posts DirectoryChanged.
C14_ProbeFailureGivesNoMarkers ==
  /\ (ProbeReturned /\ ProbeFailed) => lister.status = NoStatus
  /\ (Shown /\ ProbeFailed) =>
       /\ markers = NoStatus
       /\ entries = Listing(current_dir, show_hidden,
                            sort_key \in {"size", "modified"}, sort_key)
       /\ rows = RowKeys(current_dir, entries)
       /\ dir_changed = current_dir

\* A probe timed out after printing lines, and the listing is on display
\* without a marker.
C14_Witness_TimedOutProbeListingShown ==
  /\ Shown
  /\ lister.git.outcome = "timeout"
  /\ lister.git.lines # << >>
  /\ entries # << >>
  /\ markers = NoStatus

\* The lines of the probe's output that name the child n.
LinesOf(n) ==
  { i \in 1..Len(lister.git.lines) :
      /\ ~lister.git.lines[i].short
      /\ Head(lister.git.lines[i].path) = n }

\* The children the probe's output names.
NamedChildren ==
  { Head(lister.git.lines[i].path) :
      i \in { k \in 1..Len(lister.git.lines) : ~lister.git.lines[k].short } }

Matching(vs, q) == { i \in 1..Len(vs) : Lower(q.suffix) \in vs[i].exts }

\* r is the matching class of highest priority, the first registered of
\* those that share it.
FirstOfHighest(vs, q, r) ==
  \E i \in Matching(vs, q) :
    /\ r = vs[i]
    /\ \A j \in Matching(vs, q) :
         \/ vs[j].priority < vs[i].priority
         \/ (vs[j].priority = vs[i].priority /\ i <= j)

\* The registry after the step is the one before it, or that with one class
\* added at the end.
AppendOnly ==
  /\ Len(viewers') \in {Len(viewers), Len(viewers) + 1}
  /\ SubSeq(viewers', 1, Len(viewers)) = viewers

\* C20: a call of get_viewer on a path whose lower-cased extension some
\* registered class supports returns the supporting class of highest
\* priority, the first registered one where several share it; and each step
\* leaves the registered classes as they were or appends one.
C20_HighestPriorityFirstRegistered ==
  [][/\ (reg_op' = "get_viewer" /\ Matching(viewers', query') # {}) =>
          FirstOfHighest(viewers', query', resolved')
     /\ AppendOnly]_vars

\* Two different classes tie at the highest priority for an upper-case
\* extension, after a class of lower priority, and the first of the two is
\* returned.
C20_Witness_TieFirstRegisteredWins ==
  /\ reg_op = "get_viewer"
  /\ query.suffix = ".MD"
  /\ viewers = << TextViewer, NotesViewer, MarkdownViewer >>
  /\ resolved = NotesViewer

\* The members of a sequence.
Elems(sq) == { sq[i] : i \in 1..Len(sq) }

\* The registrations "[Text(prio=-1), CSV(prio=10), Fallback(prio=-100)]".
ThreeViewers == << TextViewer, CsvViewer, FallbackViewer >>

\* The step is a call of get_viewer on the path called name.
Resolves(name) == reg_op' = "get_viewer" /\ query'.name = name

\* The step calls get_viewer on the path the call before it was made on, with
\* the same classes registered.
SamePathAgain ==
  /\ reg_op = "get_viewer"
  /\ reg_op' = "get_viewer"
  /\ query'.name = query.name
  /\ query'.suffix = query.suffix
  /\ viewers' = viewers

\* C21 as the specification states it: the class get_viewer returns depends
\* on the path and the registered classes only. With TextViewer, CsvViewer
\* and FallbackViewer registered, "report.csv" gives CsvViewer, "notes.txt"
\* gives TextViewer and "data.bin" gives FallbackViewer; and a call on the
\* same path with the same classes registered returns what the call before
\* it returned.
C21_ResolveDependsOnRegistrationsOnly ==
  [][/\ viewers' = ThreeViewers =>
          /\ Resolves("report.csv") => resolved' = CsvViewer
          /\ Resolves("notes.txt") => resolved' = TextViewer
          /\ Resolves("data.bin") => resolved' = FallbackViewer
     /\ SamePathAgain => resolved' = resolved]_vars

\* C21, amended: the class get_viewer returns depends on the path, the
\* registered classes and what the peek at the file's first 512 bytes finds.
\* With TextViewer, CsvViewer and FallbackViewer registered, "report.csv"
\* gives CsvViewer and "notes.txt" gives TextViewer whatever the files hold,
\* and "data.bin" gives FallbackViewer when its first 512 bytes hold a NUL
\* byte or cannot be read and TextViewer when they hold none; and a call on
\* the same path with the same classes registered and the same outcome of
\* the peek returns what the call before it returned.
C21_ResolveDependsOnRegistrationsAndPeek ==
  [][/\ viewers' = ThreeViewers =>
          /\ Resolves("report.csv") => resolved' = CsvViewer
          /\ Resolves("notes.txt") => resolved' = TextViewer
          /\ Resolves("data.bin") =>
               resolved' = IF query'.peek = "text" THEN TextViewer
                                                   ELSE FallbackViewer
     /\ (SamePathAgain /\ query'.peek = query.peek) =>
          resolved' = resolved]_vars

\* With the three classes registered, "data.bin" holding no NUL byte in its
\* first 512 bytes is given the text viewer.
C21_Witness_TextualBinIsText ==
  /\ reg_op = "get_viewer"
  /\ viewers = ThreeViewers
  /\ query.name = "data.bin"
  /\ query.peek = "text"
  /\ resolved = TextViewer

\* C22: every call of get_viewer returns a viewer class, a registered one or
\* TextViewer or FallbackViewer, also for a path whose extension no
\* registered class supports and for one that cannot be read; when no
\* registered class supports the extension it returns TextViewer if the
\* lower-cased file name is one of the known text file names or the first
\* 512 bytes hold no NUL byte, and FallbackViewer otherwise.
C22_ResolutionNeverFails ==
  [][reg_op' = "get_viewer" =>
       /\ resolved' # NoClass
       /\ resolved' \in Elems(viewers') \cup {TextViewer, FallbackViewer}
       /\ Matching(viewers', query') = {} =>
            /\ (Lower(query'.name) \in TextFilenames \/ query'.peek = "text")
                 => resolved' = TextViewer
            /\ (Lower(query'.name) \notin TextFilenames
                 /\ query'.peek \in {"nul", "oserror"})
                 => resolved' = FallbackViewer]_vars

\* An unreadable file with a known text file name, its case aside, that no
\* registered class supports is given the text viewer.
C22_Witness_UnreadableReadmeIsText ==
  /\ reg_op = "get_viewer"
  /\ viewers = << CsvViewer, FallbackViewer >>
  /\ query.name = "README"
  /\ query.peek = "oserror"
  /\ resolved = TextViewer

\* --------------------------------------------------- properties: search

\* This step is a run of the handler op (or leaves everything as that run
\* left it): no scan moved.
Ran(op) == browse_op' = op /\ lister' = lister /\ workers' = workers

\* The query of the submission this step makes.
SubmittedQuery == Lower(browse_arg')

Increasing(sq) == \A i \in 1..(Len(sq) - 1) : sq[i] < sq[i + 1]

\* The indices of the displayed rows whose name contains q, whatever its case.
RowsContaining(q) == { i \in 0..(Len(rows) - 1) : In(q, Lower(rows[i + 1])) }

\* Everything a search handler has no business with.
BrowseRest ==
  << current_dir, dir_stack, show_hidden, sort_key, entries, rows, path_map,
     load_gen, nreq, lister, workers, screen >>

\* The displayed listing has a parent row exactly when the current directory
\* has a parent: no scan of another directory is still on its way.
ParentRowInSync ==
  (current_dir # Root) <=> (rows # << >> /\ rows[1] = "..")

\* C23: submitting a non-empty query sets the match list to the indices of
\* the displayed rows whose name contains it (case-insensitively), in
\* increasing order; if there is one, the search index is 0 and the display
\* cursor is on the first of them.
C23_MatchesAreTheDisplayedRows ==
  [][(Ran("submit") /\ SubmittedQuery # "") =>
       (/\ Elems(search_matches') = RowsContaining(SubmittedQuery)
        /\ Increasing(search_matches')
        /\ search_query' = SubmittedQuery
        /\ (search_matches' # << >>) =>
             (search_index' = 0 /\ cursor' = search_matches'[1]))]_vars

\* C35: in every state, each index in the match list is the index of a
\* displayed row, and the name of that row contains the query.
C35_MatchIndicesAreMatchingRows ==
  \A i \in 1..Len(search_matches) :
    /\ search_matches[i] \in 0..(Len(rows) - 1)
    /\ In(search_query, Lower(rows[search_matches[i] + 1]))

\* C24: in a listing below the root, row 0 (the parent row) is in the match
\* list exactly when the submitted query is "..".
C24_ParentRowMatchesOnlyDotDot ==
  [][(Ran("submit") /\ SubmittedQuery # "" /\ current_dir # Root
        /\ ParentRowInSync) =>
       ((0 \in Elems(search_matches')) <=> (browse_arg' = ".."))]_vars

Cyclic(i, step, n) ==
  IF step = 1 THEN (IF i = n - 1 THEN 0 ELSE i + 1)
  ELSE (IF i = 0 THEN n - 1 ELSE i - 1)

\* k applications of Rotate by step.
RECURSIVE RotateTimes(_, _, _, _)
RotateTimes(i, step, n, k) ==
  IF k = 0 THEN i ELSE RotateTimes(Rotate(i, step, n), step, n, k - 1)

\* What a step through the matches does.
StepsThrough(step) ==
  LET n == Len(search_matches)
  IN  IF n = 0
      THEN search_index' = -1 /\ search_index = -1 /\ cursor' = cursor
      ELSE /\ search_index' = Cyclic(search_index, step, n)
           /\ search_index' \in 0..(n - 1)
           /\ (search_matches[search_index' + 1] < Len(rows)) =>
                cursor' = search_matches[search_index' + 1]

ViewApplied ==
  \/ lister.pc = "handoff" /\ lister'.pc = "done"
  \/ workers[1].pc = "handoff" /\ workers'[1].pc = "applied"

SearchCleared ==
  search_query = "" /\ search_matches = << >> /\ search_index = -1

\* C27: a reload, a sort change, a hidden toggle and a path change each
\* request a scan, and every step that applies a scan's listing to the view
\* leaves the query empty, the match list empty and the search index -1,
\* whatever they were; the rows change in no other step.
C27_ViewChangeClearsSearch ==
  [][/\ ViewApplied => SearchCleared'
     /\ (rows' # rows \/ entries' # entries) => ViewApplied
     /\ (\/ Ran("hidden") /\ show_hidden' # show_hidden
         \/ Ran("sort") /\ sort_key' # sort_key
         \/ current_dir' # current_dir) =>
          (lister'.pc = "pending" /\ nreq' = nreq + 1)]_vars

\* A search that had matches was submitted while the scan after a sort change
\* was on its way; the scan's listing is applied and the search is gone.
C27_Witness_SearchGoneAfterSort ==
  /\ browse_op = "submit"
  /\ browse_arg = "D"
  /\ sort_key = "size"
  /\ nreq = 2
  /\ lister.pc = "done"
  /\ SearchCleared

\* ----------------------------------------------- properties: navigation

\* This step is a run of the handler op: it requested a scan or moved none.
HandlerRan(op) ==
  /\ browse_op' = op
  /\ \/ nreq' = nreq + 1
     \/ nreq' = nreq /\ lister' = lister /\ workers' = workers

\* The stack the first n moves of the trail t ask for: a forward move puts
\* the directory it left on top, a move back takes the top off.
RECURSIVE StackAfter(_, _)
StackAfter(t, n) ==
  IF n <= 1 THEN << >>
  ELSE LET before == StackAfter(t, n - 1)
       IN  IF t[n][1] = "forward" THEN Append(before, t[n - 1][2])
           ELSE SubSeq(before, 1, Len(before) - 1)

\* C28: the navigation stack is last-in first-out: it always holds, oldest
\* first, the directories left by the forward moves not yet undone, and a
\* move back makes current the directory that the most recent such move left.
C28_StackIsLastInFirstOut ==
  /\ dir_stack = StackAfter(trail, Len(trail))
  /\ current_dir = trail[Len(trail)][2]
  /\ (trail[Len(trail)][1] = "back") =>
       LET before == StackAfter(trail, Len(trail) - 1)
       IN  before # << >> /\ current_dir = before[Len(before)]

\* From A forward to B and to C, then back twice: B, then A.
C28_Witness_BackTwice ==
  /\ trail = << << "start", "/" >>, << "forward", "/p1" >>,
                << "forward", "/p2" >>, << "back", "/p1" >>,
                << "back", "/" >> >>
  /\ current_dir = "/"
  /\ dir_stack = << >>

\* A scan is requested in this step.
ScanRequested == nreq' = nreq + 1 /\ lister'.pc = "pending"

\* Nothing of the navigation moves in this step, and no scan is requested.
NavUntouched ==
  /\ UNCHANGED << dir_stack, current_dir, nreq, lister, load_gen, workers >>
  /\ UNCHANGED << entries, rows, cursor >>

\* What a run of _navigate_to(path) does.
NavigateEffect(path) ==
  IF IsDir(path) /\ path # current_dir
  THEN /\ dir_stack' = Append(dir_stack, current_dir)
       /\ current_dir' = path
       /\ ScanRequested
  ELSE NavUntouched

\* What a run of action_go_back does.
BackEffect ==
  IF dir_stack = << >> THEN NavUntouched
  ELSE /\ dir_stack' = SubSeq(dir_stack, 1, Len(dir_stack) - 1)
       /\ current_dir' = dir_stack[Len(dir_stack)]
       /\ ScanRequested

\* C29: a navigation pushes the directory it leaves, changes the current
\* directory and starts a scan exactly when its target is a directory other
\* than the current one, and otherwise changes neither and starts no scan;
\* a move back never pushes, and on an empty stack changes nothing and
\* starts no scan; nothing else changes the stack or the current directory.
C29_PushOnlyOnForwardMove ==
  [][/\ HandlerRan("navigate") => NavigateEffect(browse_arg')
     /\ HandlerRan("pin") => NavigateEffect(browse_arg')
     /\ HandlerRan("back") => BackEffect
     /\ (dir_stack' # dir_stack \/ current_dir' # current_dir) =>
          (HandlerRan("navigate") \/ HandlerRan("pin") \/ HandlerRan("back"))]_vars

\* After a forward move a navigation to a file was asked for: nothing moved.
C29_Witness_NavigateToFileIgnored ==
  /\ browse_op = "navigate"
  /\ browse_arg = "/p1/file1.txt"
  /\ current_dir = "/p1"
  /\ dir_stack = << "/" >>
  /\ nreq = 2

\* C30: with the preview not full screen, the pins key and the history key
\* each open their popup, and a directory chosen in a popup is navigated to
\* as by any forward move: the directory left is pushed, the current
\* directory changes and a scan starts.
C30_PopupJumpsAreForwardMoves ==
  [][/\ (HandlerRan("show_pins") /\ ~PreviewIsOpen) => screen' = "pins"
     /\ (HandlerRan("show_history") /\ ~PreviewIsOpen) => screen' = "history"
     /\ (screen \in {"pins", "history"} /\ HandlerRan("pin")) =>
          (screen' = "browser" /\ NavigateEffect(browse_arg'))]_vars

\* ------------------------------------------- properties: file operations

\* The step is a run of a handler that attempts a file operation.
Attempt == file_ops' = file_ops + 1

\* What the browser shows and where it is.
View ==
  << current_dir, entries, rows, path_map, cursor, show_hidden, sort_key,
     dir_stack, search_query, search_matches, search_index >>

\* The step calls _load_directory().
Rescans == nreq' = nreq + 1

\* C31: a touch, mkdir, rename or delete that is rejected or fails leaves
\* the file system and the view as they were and requests no scan; a scan is
\* requested only by an attempt that succeeded.
C31_FailedOperationChangesNothing ==
  [][Attempt =>
       /\ op_result' \in {"rejected", "failed"} =>
            (disk' = disk /\ View' = View /\ ~Rescans)
       /\ Rescans => op_result' = "ok"]_vars

\* The paths the step takes off the disk.
Removed == DOMAIN disk \ DOMAIN disk'

\* The path p and what lies below it.
TreeAt(p) == {PathParts(p)} \cup Under(disk, PathParts(p))

\* The row under the cursor, when the step opens a rename field or a confirm
\* screen for target: an entry's row, never the parent row.
OpenedOnEntry(target) ==
  /\ cursor >= 0
  /\ rows[cursor + 1] # ".."
  /\ target = path_map[rows[cursor + 1]]
  /\ target # Parent(current_dir)

\* C39: a path leaves the disk only in the step that dismisses, with
\* "confirmed", the confirm screen opened for it (or, moved, in the rename
\* submitted for it); a dismissal with cancel or Escape takes nothing off the
\* disk and requests no scan; and the confirm screen and the rename field
\* are opened for the entry under the cursor only, never for the parent row.
C39_DeleteOnlyAfterConfirm ==
  [][/\ Removed # {} =>
          \/ /\ screen = "confirm" /\ browse_op' = "confirm"
             /\ Removed \subseteq TreeAt(confirm)
          \/ /\ rename_path # NoPath /\ browse_op' = "rename"
             /\ Removed = TreeAt(rename_path)
             /\ Cardinality(DOMAIN disk') = Cardinality(DOMAIN disk)
     /\ (screen = "confirm" /\ browse_op' = "cancel") =>
          (disk' = disk /\ ~Rescans)
     /\ (confirm' # confirm /\ confirm' # NoPath) => OpenedOnEntry(confirm')
     /\ (rename_path' # rename_path /\ rename_path' # NoPath) =>
          OpenedOnEntry(rename_path')]_vars

\* A directory and what it held are gone after its confirm screen was
\* answered with "confirmed".
C39_Witness_ConfirmedDirectoryDeleted ==
  /\ browse_op = "confirm"
  /\ browse_arg = "/p1/dir1"
  /\ op_result = "ok"
  /\ TreeAt("/p1/dir1") = {PathParts("/p1/dir1")}
  /\ PathParts("/p1/dir1") \notin DOMAIN disk

\* ---------------------------------------- properties: directory changes

\* No value occurs twice in the sequence.
NoDuplicate(sq) == \A i, j \in 1..Len(sq) : sq[i] = sq[j] => i = j

\* The step handles a DirectoryChanged message; the path it adds to the
\* history is the one update_path resolved.
HandlesChange == bar_op' = "changed"

\* The entries of the history before the step other than the one added, in
\* their order.
Others == SelectSeq(history_file, LAMBDA p : p # pb_path')

\* C32: after every add_to_history the persisted history holds no path
\* twice, holds at most MAX_HISTORY entries and starts with the resolved path
\* just added; the entries behind it are the other earlier entries in their
\* earlier order, cut at the end where the list would be too long; re-adding
\* a path that is present moves it to the front and changes nothing else.
C32_HistoryIsDeduplicatedAndCapped ==
  [][HandlesChange =>
       /\ NoDuplicate(history_file')
       /\ Len(history_file') <= MaxHistory
       /\ Len(history_file') >= 1
       /\ history_file'[1] = pb_path'
       /\ Tail(history_file')
            = SubSeq(Others, 1, Len(history_file') - 1)
       /\ Len(history_file') = IF Len(Others) + 1 > MaxHistory THEN MaxHistory
                               ELSE Len(Others) + 1
       /\ (\E i \in 1..Len(history_file) : history_file[i] = pb_path') =>
            Tail(history_file') = Others]_vars

\* A full history: the directory entered last is first and the ones entered
\* before it follow, each once.
C32_Witness_FullHistoryNewestFirst ==
  /\ bar_op = "changed"
  /\ Len(history_file) = MaxHistory
  /\ history_file[1] = "/p2"
  /\ history_file[2] = "/home"
  /\ history_file[MaxHistory] = "/p1/dir1"

\* C38: what the path bar shows is a rendering of the path it holds: a text
\* rendered with the git information of another path is never set once
\* update_path has moved on.
C38_BarShowsItsOwnPath == pb_text.path = pb_path

\* ------------------------------------------------------ properties: pins

\* The paths of the pins, in their order.
PinnedPaths(pins) == [i \in 1..Len(pins) |-> pins[i].path]

\* Some pin has the path.
Pinned(pins, path) == \E i \in 1..Len(pins) : pins[i].path = path

\* C33: add_pin returns True exactly when a pin with the resolved path was
\* there; then the paths of the list and its length are as before and that
\* pin has the new name, the others their old ones; otherwise one pin with
\* the path and the name is appended and False returned.  No path is ever
\* pinned twice, and remove_pin leaves no pin for its path and the others as
\* they were.
C33_PinsStayUnique ==
  [][/\ pin_op' = "add" =>
          /\ pin_ret' = Pinned(pins_file, pin_arg')
          /\ pin_ret' =>
               /\ PinnedPaths(pins_file') = PinnedPaths(pins_file)
               /\ \A i \in 1..Len(pins_file) :
                    pins_file[i].path # pin_arg' => pins_file'[i] = pins_file[i]
          /\ ~pin_ret' =>
               /\ Len(pins_file') = Len(pins_file) + 1
               /\ SubSeq(pins_file', 1, Len(pins_file)) = pins_file
          /\ pins_file'[Len(pins_file')].path = pin_arg' \/ pin_ret'
          /\ Pinned(pins_file', pin_arg')
     /\ pin_op' = "remove" =>
          /\ ~Pinned(pins_file', pin_arg')
          /\ pins_file' = SelectSeq(pins_file, LAMBDA p : p.path # pin_arg')
     /\ NoDuplicate(PinnedPaths(pins_file'))]_vars

\* A pinned directory pinned again under another name: the pin, in the
\* middle of the list, has the new name and add_pin has returned True.
C33_Witness_RenamedInPlace ==
  /\ pin_op = "add"
  /\ pin_ret = TRUE
  /\ pins_file = << Pin("/p1", ""), Pin("/p2", "work"), Pin("/", "tmp") >>
  /\ pin_arg = "/p2"

==========================================================================
